---- MODULE Spec2Model ----
(***************************************************************************)
(* Model of the batch pipeline of src/src/cli.py (class BatchProcessor):   *)
(* the in-memory Record Store, its mirror in the external store (Redis),   *)
(* the write-ahead log, and the run orchestration of process_batch.        *)
(***************************************************************************)
EXTENDS Integers, Sequences, FiniteSets, TLC

VARIABLES
    \* ---- BatchProcessor fields (cli.py 76-97) ----
    results,               \* self.results: list of records
    index_by_source,       \* self.index_by_source: source -> position (1-based here)
    record_key_by_source,  \* self.record_key_by_source
    seen_record_keys,      \* self.seen_record_keys
    processed_references,  \* self.processed_references
    \* ---- external store (Redis), namespace N ----
    redis_refs,            \* N:processed_refs, a set
    redis_order,           \* N:order, sorted set: member -> score
    redis_record,          \* N:record:<identifier> -> field "data"
    redis_wal_index,       \* wal:index, the set of registered segments
    redis_wal,             \* wal:<timestamp>:<suffix> -> list of entries
    \* ---- run bookkeeping of BatchProcessor ----
    failed_sources,        \* self.failed_sources
    counts,                \* processed_count, failed_count, batch_count,
                           \* fallback_processed_count, fallback_failed_count
    source_to_path,        \* self.source_to_path
    wal_key,               \* self.wal_key
    recovered_wal_keys,    \* self.recovered_wal_keys
    excel_executor,        \* self.excel_executor: shut down?, writes queued,
                           \* writes running, writes submitted so far
    \* ---- position of process_batch and of its units of work ----
    pc,                    \* phase of the run
    rec,                   \* locals of _recover_from_wal
    work,                  \* the list being windowed: pdf_files / invalid_paths
    next_i,                \* start of the next window in work (1-based)
    batch,                 \* the window awaited by asyncio.gather
    bars,                  \* the tqdm progress bars: primary, fallback
    \* ---- environment ----
    config,                \* arguments of the run and behaviour of extraction
    excel,                 \* the output artifact
    run_no,                \* how many runs have started (names the segment)
    faults,                \* external failures injected so far
    crashes,               \* process crashes so far
    now,                   \* wall clock read by datetime.now()
    \* ---- observation ----
    last_store,            \* the locals of the last _store_result call
    ext_clean,             \* the run began on an empty external store and
                           \* no external commit has failed since
    last_unit,             \* how the last unit of work ended
    last_export,           \* how the last export ended
    snapshot               \* the Record Store after the first replay of a segment

storeVars == <<results, index_by_source, record_key_by_source, seen_record_keys,
               processed_references>>
redisVars == <<redis_refs, redis_order, redis_record>>
walVars == <<redis_wal_index, redis_wal>>
bookVars == <<failed_sources, counts, source_to_path, wal_key, recovered_wal_keys,
              excel_executor>>
posVars == <<pc, rec, work, next_i, batch, bars>>
envVars == <<config, excel, run_no, faults, crashes>>
obsVars == <<last_unit, last_export, snapshot>>
runVars == <<walVars, bookVars, posVars, envVars, obsVars>>
vars == <<results, index_by_source, record_key_by_source, seen_record_keys,
          processed_references, redis_refs, redis_order, redis_record, now,
          last_store, ext_clean, runVars>>

-----------------------------------------------------------------------------
(* Text: a string is a sequence of one-character strings.                   *)

Digits == {"0", "1", "2", "3", "4", "5", "6", "7", "8", "9"}
LowerSeq == <<"a", "b", "c", "d", "e", "f", "g", "h", "i", "j", "k", "l", "m",
              "n", "o", "p", "q", "r", "s", "t", "u", "v", "w", "x", "y", "z">>
UpperSeq == <<"A", "B", "C", "D", "E", "F", "G", "H", "I", "J", "K", "L", "M",
              "N", "O", "P", "Q", "R", "S", "T", "U", "V", "W", "X", "Y", "Z">>
LowerLetters == {LowerSeq[i] : i \in DOMAIN LowerSeq}
UpperLetters == {UpperSeq[i] : i \in DOMAIN UpperSeq}
Whitespace == {" "}

\* str.upper() on one character
UpperChar(c) ==
    IF c \in LowerLetters
    THEN UpperSeq[CHOOSE i \in DOMAIN LowerSeq : LowerSeq[i] = c]
    ELSE c

\* str.upper()
Upper(s) == [i \in DOMAIN s |-> UpperChar(s[i])]

\* str.strip(): drop leading and trailing whitespace
RECURSIVE LStrip(_)
LStrip(s) ==
    IF s # <<>> /\ Head(s) \in Whitespace THEN LStrip(Tail(s)) ELSE s

RECURSIVE RStrip(_)
RStrip(s) ==
    IF s # <<>> /\ s[Len(s)] \in Whitespace
    THEN RStrip(SubSeq(s, 1, Len(s) - 1))
    ELSE s

Strip(s) == RStrip(LStrip(s))

\* re.fullmatch(r"\d{14}", ref)
FullMatchDigits14(ref) ==
    Len(ref) = 14 /\ \A i \in DOMAIN ref : ref[i] \in Digits

\* re.fullmatch(r"[A-Za-z0-9]{8}", ref)
FullMatchAlnum8(ref) ==
    Len(ref) = 8 /\ \A i \in DOMAIN ref :
        ref[i] \in Digits \cup LowerLetters \cup UpperLetters

\* A missing reference (None) and the empty string are both falsy: <<>>.
NoRef == <<>>

\* BatchProcessor._is_valid_energy_reference
IsValidEnergyReference(reference) ==
    IF reference = NoRef
    THEN FALSE
    ELSE LET ref == Strip(reference)
         IN  FullMatchDigits14(ref) \/ FullMatchAlnum8(ref)

\* str(reference).strip().upper()
NormalizeRef(reference) == Upper(Strip(reference))

-----------------------------------------------------------------------------
(* Records, identifiers, serialisation.                                     *)

\* The dict built in _process_single_pdf (713-716): model_dump() plus the
\* three pipeline fields.  document_date stands for the date-typed fields of
\* EnergyInvoiceRecord: a datetime.date object straight from model_dump().
NewRecord(source, reference, t, method) ==
    [source_file |-> source, energy_reference |-> reference,
     processed_at |-> t, extraction_method |-> method,
     document_date |-> "date"]

\* json.loads(json.dumps(record, default=str)): default=str turns the date
\* object into its ISO text, and parsing gives the text back.
JsonDumps(record) ==
    [record EXCEPT !.document_date = IF @ = "date" THEN "iso" ELSE @]

JsonLoads(text) == text

\* BatchProcessor._compute_record_key (records always carry source_file)
ComputeRecordKey(record) == <<"source", record.source_file>>

\* BatchProcessor._build_record_identifier
BuildRecordIdentifier(record) ==
    IF IsValidEnergyReference(record.energy_reference)
    THEN <<"ref", NormalizeRef(record.energy_reference)>>
    ELSE <<"src", record.source_file>>

NoId == <<"none">>

\* map[key] = value on a dict / hash / sorted set
Put(map, key, value) ==
    [k \in DOMAIN map \cup {key} |-> IF k = key THEN value ELSE map[k]]

\* del map[key], a no-op when absent
Drop(map, key) == [k \in DOMAIN map \ {key} |-> map[k]]

EmptyMap == [k \in {} |-> 0]

-----------------------------------------------------------------------------
(* Record Store: _store_result and its external commit.                     *)

NoStore ==
    [n |-> 0, source |-> "", replaced |-> FALSE, previous_identifier |-> NoId,
     previous_reference |-> NoRef, record_identifier |-> NoId, ok |-> FALSE]

RetractPrevious_Never(previous_identifier, record_identifier) == FALSE

RetractPrevious_Always(previous_identifier, record_identifier) ==
    previous_identifier # NoId

\* _persist_record_to_redis 190: the guard of the retraction block
RetractPrevious(previous_identifier, record_identifier) ==
    previous_identifier # NoId /\ previous_identifier # record_identifier

PersistRecordToRedis_Partial(record, record_identifier, previous_identifier, previous_reference, ok) ==
    LET rec1 == Put(redis_record, record_identifier, JsonDumps(record))
        ord1 == Put(redis_order, record_identifier, record.processed_at)
        refs1 == IF IsValidEnergyReference(record.energy_reference)
                 THEN redis_refs \cup {NormalizeRef(record.energy_reference)}
                 ELSE redis_refs
        retract == RetractPrevious(previous_identifier, record_identifier)
    IN  IF ok
        THEN /\ redis_record' = IF retract THEN Drop(rec1, previous_identifier)
                                ELSE rec1
             /\ redis_order' = IF retract THEN Drop(ord1, previous_identifier)
                               ELSE ord1
             /\ redis_refs' = IF retract /\ IsValidEnergyReference(previous_reference)
                              THEN refs1 \ {NormalizeRef(previous_reference)}
                              ELSE refs1
        ELSE /\ redis_record' = rec1
             /\ UNCHANGED <<redis_order, redis_refs>>

\* BatchProcessor._persist_record_to_redis: one MULTI/EXEC pipeline.  ok is
\* whether pipeline.execute() went through; a RedisError is logged and the
\* external store is left as it was.
PersistRecordToRedis(record, record_identifier, previous_identifier, previous_reference, ok) ==
    LET score == record.processed_at
        reference == record.energy_reference
        \* hset / zadd / sadd of the new record
        rec1 == Put(redis_record, record_identifier, JsonDumps(record))
        ord1 == Put(redis_order, record_identifier, score)
        refs1 == IF IsValidEnergyReference(reference)
                 THEN redis_refs \cup {NormalizeRef(reference)}
                 ELSE redis_refs
        retract == RetractPrevious(previous_identifier, record_identifier)
    IN  IF ok
        THEN /\ redis_record' = IF retract THEN Drop(rec1, previous_identifier)
                                ELSE rec1
             /\ redis_order' = IF retract THEN Drop(ord1, previous_identifier)
                               ELSE ord1
             /\ redis_refs' = IF retract /\ IsValidEnergyReference(previous_reference)
                              THEN refs1 \ {NormalizeRef(previous_reference)}
                              ELSE refs1
        ELSE UNCHANGED redisVars

HasLive_Never(source) == FALSE

\* _store_result 274: a live record exists for the record's source.
HasLive(source) == source \in DOMAIN index_by_source

\* BatchProcessor._store_result; its return value is last_store'.replaced.
StoreResult(record, ok) ==
    LET source == record.source_file
        new_key == ComputeRecordKey(record)
        replaced == HasLive(source)
        idx == IF replaced THEN index_by_source[source] ELSE Len(results) + 1
        previous_identifier ==
            IF replaced THEN BuildRecordIdentifier(results[idx]) ELSE NoId
        previous_reference ==
            IF replaced THEN results[idx].energy_reference ELSE NoRef
        reference == record.energy_reference
        record_identifier == BuildRecordIdentifier(record)
    IN  /\ results' = IF replaced THEN [results EXCEPT ![idx] = record]
                      ELSE Append(results, record)
        /\ seen_record_keys' =
               (IF replaced /\ source \in DOMAIN record_key_by_source
                THEN seen_record_keys \ {record_key_by_source[source]}
                ELSE seen_record_keys) \cup {new_key}
        /\ index_by_source' = Put(index_by_source, source, idx)
        /\ record_key_by_source' = Put(record_key_by_source, source, new_key)
        /\ processed_references' =
               IF IsValidEnergyReference(reference)
               THEN processed_references \cup {NormalizeRef(reference)}
               ELSE processed_references
        /\ PersistRecordToRedis(record, record_identifier, previous_identifier,
                                previous_reference, ok)
        /\ last_store' =
               [n |-> last_store.n + 1, source |-> source, replaced |-> replaced,
                previous_identifier |-> previous_identifier,
                previous_reference |-> previous_reference,
                record_identifier |-> record_identifier, ok |-> ok]
        /\ ext_clean' = (ext_clean /\ ok)

\* process_batch 507-512: the in-memory indices are cleared, the external
\* store is not touched.
ResetMemory ==
    /\ results' = <<>>
    /\ index_by_source' = EmptyMap
    /\ record_key_by_source' = EmptyMap
    /\ seen_record_keys' = {}
    /\ processed_references' = {}

-----------------------------------------------------------------------------
(* The run: configuration and helpers.                                      *)

NoMethod == "none"
NoKey == <<"nokey">>

Min(a, b) == IF a < b THEN a ELSE b

\* All orders in which a set can be iterated (Python set / Redis SMEMBERS).
RECURSIVE Orders(_)
Orders(S) ==
    IF S = {} THEN {<<>>}
    ELSE UNION {{<<x>> \o o : o \in Orders(S \ {x})} : x \in S}

\* How a unit of work can end before it has a record: the document could not
\* be rendered to images (661-667), no text / no data came back (694-710), or
\* an exception was raised (744); otherwise a record with some reference.
Outcome(kind, reference) == [kind |-> kind, ref |-> reference]
NoRender == Outcome("norender", NoRef)
NoData == Outcome("nodata", NoRef)
Raises == Outcome("raise", NoRef)
Extracted(reference) == Outcome("record", reference)

\* The outcomes extraction may have for a document under a method.
Allowed(path, method) == config.oracle[path][method]

ZeroCounts ==
    [processed_count |-> 0, failed_count |-> 0, batch_count |-> 0,
     fallback_processed_count |-> 0, fallback_failed_count |-> 0]

NoRecovery ==
    [keys |-> <<>>, cur |-> NoKey, entries |-> <<>>, recovered |-> 0,
     updated |-> 0, total |-> 0]

NoUnit == [n |-> 0, source |-> "", kind |-> "", is_fallback |-> FALSE]
NoExport ==
    [n |-> 0, kind |-> "", outcome |-> "", partial |-> FALSE, fetched |-> <<>>,
     summary |-> FALSE]

\* The Record Store, in memory and in the external store.
RecordStore ==
    [results |-> results, index_by_source |-> index_by_source,
     processed_references |-> processed_references,
     redis_record |-> redis_record, redis_order |-> redis_order,
     redis_refs |-> redis_refs]

NoSnapshot == [known |-> FALSE, store |-> <<>>, faults |-> 0]

\* Failure flags an action may draw: k external operations, each succeeding
\* (TRUE) or failing, within what is left of the failure budget.
Oks(k) ==
    {f \in [1..k -> BOOLEAN] :
        Cardinality({i \in 1..k : ~f[i]}) <= config.max_faults - faults}

Failures(f) == Cardinality({i \in DOMAIN f : ~f[i]})

\* A WAL entry as rpush writes it and lrange returns it.
WalEntry(record) == [valid |-> TRUE, data |-> JsonDumps(record)]

Rpush_Left(entries, entry) == <<entry>> \o entries

\* rpush(key, value) on the list stored under a key (_append_to_wal 117)
Rpush(entries, entry) == Append(entries, entry)

\* lrange(key, 0, -1): a missing key reads as the empty list
Lrange(key) == IF key \in DOMAIN redis_wal THEN redis_wal[key] ELSE <<>>

\* A record without its timestamp, for comparing contents across runs.
Content(record) ==
    [source_file |-> record.source_file,
     energy_reference |-> record.energy_reference,
     extraction_method |-> record.extraction_method,
     document_date |-> record.document_date]

Contents == {Content(results[i]) : i \in DOMAIN results}

\* __init__ 92: ThreadPoolExecutor(max_workers=1)
MaxWorkers == 1

\* A new executor: nothing queued, nothing running.  submitted counts the
\* calls of submit() on it.
NewExecutor == [shutdown |-> FALSE, queue |-> 0, running |-> 0, submitted |-> 0]

\* BatchProcessor.__init__: the fields of a fresh instance.
FreshInstance ==
    /\ ResetMemory
    /\ failed_sources' = {}
    /\ counts' = ZeroCounts
    /\ source_to_path' = EmptyMap
    /\ wal_key' = NoKey
    /\ recovered_wal_keys' = {}
    /\ excel_executor' = NewExecutor
    /\ pc' = "idle"
    /\ rec' = NoRecovery
    /\ work' = <<>>
    /\ next_i' = 1
    /\ batch' = <<>>
    /\ bars' = [primary |-> 0, fallback |-> 0]

\* The state after construction, on an empty external store.
InitWith(cfg) ==
    /\ results = <<>>
    /\ index_by_source = EmptyMap
    /\ record_key_by_source = EmptyMap
    /\ seen_record_keys = {}
    /\ processed_references = {}
    /\ redis_refs = {}
    /\ redis_order = EmptyMap
    /\ redis_record = EmptyMap
    /\ redis_wal_index = {}
    /\ redis_wal = EmptyMap
    /\ failed_sources = {}
    /\ counts = ZeroCounts
    /\ source_to_path = EmptyMap
    /\ wal_key = NoKey
    /\ recovered_wal_keys = {}
    /\ excel_executor = NewExecutor
    /\ pc = "idle"
    /\ rec = NoRecovery
    /\ work = <<>>
    /\ next_i = 1
    /\ batch = <<>>
    /\ bars = [primary |-> 0, fallback |-> 0]
    /\ config = cfg
    /\ excel = <<>>
    /\ run_no = 0
    /\ faults = 0
    /\ crashes = 0
    /\ now = 1
    /\ last_store = NoStore
    /\ ext_clean = TRUE
    /\ last_unit = NoUnit
    /\ last_export = NoExport
    /\ snapshot = NoSnapshot

\* ---- run orchestration ----

\* The literal of process_batch 542: an incremental export every 20 successes.
ExcelEvery == 20

IsFallback == pc = "fallback"

\* The extraction method of the pass in progress (536 / 587).
PassMethod == IF IsFallback THEN config.fallback_method ELSE config.method

\* process_batch 523-530, 532: source_to_path keeps the last path of each
\* filename, and the primary pass starts on the whole document list.
EnterPrimary ==
    /\ pc' = "primary"
    /\ source_to_path' =
           [name \in {config.pdf_files[i].name : i \in DOMAIN config.pdf_files} |->
               config.pdf_files[CHOOSE i \in DOMAIN config.pdf_files :
                   /\ config.pdf_files[i].name = name
                   /\ \A j \in DOMAIN config.pdf_files :
                          config.pdf_files[j].name = name => j <= i]]
    /\ work' = config.pdf_files
    /\ next_i' = 1
    /\ batch' = <<>>
    /\ bars' = [primary |-> 0, fallback |-> 0]

\* process_batch 502-518 and _recover_from_wal 365-377: Reset, then the WAL
\* index is read (SMEMBERS, in any order); a RedisError there skips recovery.
StartRun ==
    /\ pc = "idle"
    /\ run_no < config.max_runs
    /\ ResetMemory
    /\ counts' = ZeroCounts
    /\ failed_sources' = {}
    /\ recovered_wal_keys' = {}
    /\ run_no' = run_no + 1
    /\ ext_clean' = (DOMAIN redis_order = {} /\ DOMAIN redis_record = {}
                     /\ redis_refs = {})
    /\ \E f \in Oks(1) :
          /\ faults' = faults + Failures(f)
          /\ IF f[1] /\ redis_wal_index # {}
             THEN /\ \E order \in Orders(redis_wal_index) :
                        rec' = [NoRecovery EXCEPT !.keys = order]
                  /\ pc' = "recover"
                  /\ UNCHANGED <<source_to_path, work, next_i, batch, bars>>
             ELSE /\ rec' = NoRecovery
                  /\ EnterPrimary
    /\ UNCHANGED <<redisVars, walVars, wal_key, excel_executor, config, excel,
                   crashes, now, last_store, obsVars>>

\* _recover_from_wal 379-383: the next segment is read with LRANGE; on a
\* RedisError (412) the segment is left unmarked.
RecoverSegment ==
    /\ pc = "recover"
    /\ rec.cur = NoKey
    /\ rec.keys # <<>>
    /\ \E f \in Oks(1) :
          /\ faults' = faults + Failures(f)
          /\ rec' = IF f[1]
                    THEN [rec EXCEPT !.keys = Tail(@), !.cur = Head(rec.keys),
                                     !.entries = Lrange(Head(rec.keys)),
                                     !.recovered = 0, !.updated = 0]
                    ELSE [rec EXCEPT !.keys = Tail(@)]
    /\ UNCHANGED <<storeVars, redisVars, walVars, bookVars, pc, work, next_i,
                   batch, bars, config, excel, run_no, crashes, now, last_store,
                   ext_clean, obsVars>>

Parseable_Always(entry) == TRUE

\* _recover_from_wal 386-398: an empty entry or one json.loads rejects is
\* skipped.
Parseable(entry) == entry.valid

\* _recover_from_wal 385-404: one entry of the segment; an entry that does
\* not parse is logged and skipped, a parsed one goes through _store_result.
RecoverEntry ==
    /\ pc = "recover"
    /\ rec.cur # NoKey
    /\ rec.entries # <<>>
    /\ LET entry == Head(rec.entries)
       IN  IF Parseable(entry)
           THEN \E f \in Oks(1) :
                   /\ faults' = faults + Failures(f)
                   /\ StoreResult(JsonLoads(entry.data), f[1])
                   /\ rec' = [rec EXCEPT
                                !.entries = Tail(@),
                                !.total = @ + 1,
                                !.updated = IF HasLive(entry.data.source_file)
                                            THEN @ + 1 ELSE @,
                                !.recovered = IF HasLive(entry.data.source_file)
                                              THEN @ ELSE @ + 1]
           ELSE /\ rec' = [rec EXCEPT !.entries = Tail(@)]
                /\ UNCHANGED <<storeVars, redisVars, faults, last_store, ext_clean>>
    /\ UNCHANGED <<walVars, bookVars, pc, work, next_i, batch, bars, config, excel,
                   run_no, crashes, now, obsVars>>

\* _recover_from_wal 406-410: the segment is marked for cleanup.
RecoverSegmentDone ==
    /\ pc = "recover"
    /\ rec.cur # NoKey
    /\ rec.entries = <<>>
    /\ recovered_wal_keys' = recovered_wal_keys \cup {rec.cur}
    /\ rec' = [rec EXCEPT !.cur = NoKey]
    /\ UNCHANGED <<storeVars, redisVars, walVars, failed_sources, counts,
                   source_to_path, wal_key, excel_executor, pc, work, next_i,
                   batch, bars, envVars, now, last_store, ext_clean, obsVars>>

\* _recover_from_wal returns; process_batch 520-532.
RecoverDone ==
    /\ pc = "recover"
    /\ rec.cur = NoKey
    /\ rec.keys = <<>>
    /\ EnterPrimary
    /\ UNCHANGED <<storeVars, redisVars, walVars, failed_sources, counts, wal_key,
                   recovered_wal_keys, excel_executor, rec, envVars, now,
                   last_store, ext_clean, obsVars>>

WindowSize_OneMore == config.max_concurrent + 1

\* process_batch 534 / 582: the width of the slice work[i : i + max_concurrent]
WindowSize == config.max_concurrent

\* process_batch 532-539 / 581-592: the units of the next window are created
\* and handed to asyncio.gather.
StartWindow ==
    /\ pc \in {"primary", "fallback"}
    /\ batch = <<>>
    /\ next_i <= Len(work)
    /\ batch' = [k \in 1..Min(WindowSize, Len(work) - next_i + 1) |->
                    [path |-> work[next_i + k - 1], st |-> "await"]]
    /\ next_i' = next_i + config.max_concurrent
    /\ counts' = IF IsFallback THEN counts
                 ELSE [counts EXCEPT !.batch_count = @ + 1]
    /\ UNCHANGED <<storeVars, redisVars, walVars, failed_sources, source_to_path,
                   wal_key, recovered_wal_keys, excel_executor, pc, rec, work,
                   bars, envVars, now, last_store, ext_clean, obsVars>>

\* _register_failure 357-363, on the counters
CountFailure(c, is_fallback) ==
    IF is_fallback THEN [c EXCEPT !.fallback_failed_count = @ + 1]
    ELSE [c EXCEPT !.failed_count = @ + 1]

\* _process_single_pdf 724-733, on the counters
CountSuccess(c, is_fallback) ==
    IF is_fallback THEN [c EXCEPT !.fallback_processed_count = @ + 1]
    ELSE [c EXCEPT !.processed_count = @ + 1]

\* _process_single_pdf 748-749: progress_bar.update(1)
BarUpdate ==
    IF IsFallback THEN [bars EXCEPT !.fallback = @ + 1]
    ELSE [bars EXCEPT !.primary = @ + 1]

UnitEnds(k, kind) ==
    /\ batch' = [batch EXCEPT ![k].st = "done"]
    /\ bars' = BarUpdate
    /\ last_unit' = [n |-> last_unit.n + 1, source |-> batch[k].path.name,
                     kind |-> kind, is_fallback |-> IsFallback]

UnitFails_Propagates(k, kind) ==
    /\ pc' = "fatal"
    /\ batch' = <<>>
    /\ last_unit' = [n |-> last_unit.n + 1, source |-> batch[k].path.name,
                     kind |-> kind, is_fallback |-> IsFallback]
    /\ UNCHANGED <<storeVars, redisVars, walVars, failed_sources, counts,
                   source_to_path, wal_key, recovered_wal_keys, excel_executor,
                   rec, work, next_i, bars, envVars, now, last_store, ext_clean,
                   last_export, snapshot>>

\* _process_single_pdf 694-710 and 744-749: the unit ends without a record
\* (no text, no data, or an exception caught at the unit boundary) and the
\* failure is registered.
UnitFails(k, kind) ==
    /\ failed_sources' = failed_sources \cup {batch[k].path.name}
    /\ counts' = CountFailure(counts, IsFallback)
    /\ UnitEnds(k, kind)
    /\ UNCHANGED <<storeVars, redisVars, walVars, source_to_path, wal_key,
                   recovered_wal_keys, excel_executor, pc, rec, work, next_i,
                   envVars, now, last_store, ext_clean, last_export, snapshot>>

\* _process_single_pdf 661-667: no page image, return None.
UnitNoRender(k) ==
    /\ UnitEnds(k, "norender")
    /\ UNCHANGED <<storeVars, redisVars, walVars, bookVars, pc, rec, work, next_i,
                   envVars, now, last_store, ext_clean, last_export, snapshot>>

\* _process_single_pdf 712-742: the record is stored (718-720), appended to
\* the WAL (722, _ensure_wal_key 99-111 and _append_to_wal 113-119) and
\* counted.  f[1]: the store's commit, f[2]: SADD wal:index, f[3]: RPUSH.
\* A failed SADD raises RuntimeError, caught at 744 as a failure of the unit.
UnitSucceeds(k, reference, f) ==
    LET name == batch[k].path.name
        record == NewRecord(name, reference, now, PassMethod)
        need_key == wal_key = NoKey
        key == IF need_key THEN <<"wal", run_no>> ELSE wal_key
        wal_error == need_key /\ ~f[2]
    IN  /\ ~need_key => f[2]
        /\ wal_error => f[3]
        /\ StoreResult(record, f[1])
        /\ now' = now + 1
        /\ wal_key' = key
        /\ redis_wal_index' = IF need_key /\ f[2] THEN redis_wal_index \cup {key}
                              ELSE redis_wal_index
        /\ redis_wal' = IF ~wal_error /\ f[3]
                        THEN Put(redis_wal, key, Rpush(Lrange(key), WalEntry(record)))
                        ELSE redis_wal
        /\ failed_sources' = IF wal_error THEN failed_sources \cup {name}
                             ELSE failed_sources \ {name}
        /\ counts' = IF wal_error THEN CountFailure(counts, IsFallback)
                     ELSE CountSuccess(counts, IsFallback)
        /\ faults' = faults + Failures(f)
        /\ UnitEnds(k, IF wal_error THEN "wal_error" ELSE "stored")
        /\ UNCHANGED <<source_to_path, recovered_wal_keys, excel_executor, pc,
                       rec, work, next_i, config, excel, run_no, crashes,
                       last_export, snapshot>>

\* BatchProcessor._process_single_pdf: one unit of work runs to its end.
UnitComplete ==
    /\ pc \in {"primary", "fallback"}
    /\ \E k \in DOMAIN batch :
          /\ batch[k].st = "await"
          /\ \E o \in Allowed(batch[k].path, PassMethod) :
                CASE o.kind = "norender" -> UnitNoRender(k)
                  [] o.kind = "record" -> \E f \in Oks(3) : UnitSucceeds(k, o.ref, f)
                  [] OTHER -> UnitFails(k, o.kind)

GatherReturned_First == \E k \in DOMAIN batch : batch[k].st = "done"

\* await asyncio.gather(*tasks) (539 / 592) returns when every unit of the
\* window has ended.
GatherReturned == \A k \in DOMAIN batch : batch[k].st = "done"

\* process_batch 539-552: gather has returned; in the primary pass an
\* incremental export is submitted when the success count is a positive
\* multiple of 20.  Submitting to an executor that was shut down raises.
WindowDone ==
    /\ pc \in {"primary", "fallback"}
    /\ batch # <<>>
    /\ GatherReturned
    /\ batch' = <<>>
    /\ IF pc = "primary" /\ counts.processed_count > 0
          /\ counts.processed_count % ExcelEvery = 0
       THEN IF excel_executor.shutdown
            THEN pc' = "fatal" /\ UNCHANGED excel_executor
            ELSE /\ excel_executor' = [excel_executor EXCEPT !.queue = @ + 1,
                                                              !.submitted = @ + 1]
                 /\ pc' = pc
       ELSE UNCHANGED <<pc, excel_executor>>
    /\ UNCHANGED <<storeVars, redisVars, walVars, failed_sources, counts,
                   source_to_path, wal_key, recovered_wal_keys, rec, work, next_i,
                   bars, envVars, now, last_store, ext_clean, obsVars>>

CollectInvalidSources_FailedOnly == failed_sources

\* BatchProcessor._collect_invalid_sources
CollectInvalidSources ==
    failed_sources \cup
    {results[i].source_file :
        i \in {j \in DOMAIN results :
                  ~IsValidEnergyReference(results[j].energy_reference)}}

\* process_batch 554-604: after the last primary window the fallback list is
\* computed (in the iteration order of a set) when a fallback is configured.
EndPrimary ==
    /\ pc = "primary"
    /\ batch = <<>>
    /\ next_i > Len(work)
    /\ IF config.fallback_method # NoMethod
       THEN \E order \in Orders(CollectInvalidSources \cap DOMAIN source_to_path) :
               /\ work' = [i \in DOMAIN order |-> source_to_path[order[i]]]
               /\ pc' = IF order = <<>> THEN "export" ELSE "fallback"
               /\ next_i' = 1
       ELSE /\ pc' = "export"
            /\ UNCHANGED <<work, next_i>>
    /\ UNCHANGED <<storeVars, redisVars, walVars, bookVars, rec, batch, bars,
                   envVars, now, last_store, ext_clean, obsVars>>

\* process_batch 592-606: the fallback windows are over.
EndFallback ==
    /\ pc = "fallback"
    /\ batch = <<>>
    /\ next_i > Len(work)
    /\ pc' = "export"
    /\ UNCHANGED <<storeVars, redisVars, walVars, bookVars, rec, work, next_i,
                   batch, bars, envVars, now, last_store, ext_clean, obsVars>>


\* zrange(records:order, 0, -1): the identifiers by ascending score.  Scores
\* are the records' processed_at and no two identifiers share one.
RECURSIVE ByScore(_)
ByScore(ids) ==
    IF ids = {} THEN <<>>
    ELSE LET first == CHOOSE x \in ids : \A y \in ids : redis_order[x] <= redis_order[y]
         IN  <<first>> \o ByScore(ids \ {first})

\* BatchProcessor._fetch_all_records: the payloads in zrange order, minus the
\* identifiers whose hget failed or returned nothing; the in-memory results
\* when zrange itself failed.
FetchAllRecords(zrange_ok, unreadable) ==
    IF ~zrange_ok THEN results
    ELSE LET ids == SelectSeq(ByScore(DOMAIN redis_order),
                        LAMBDA x : x \notin unreadable /\ x \in DOMAIN redis_record)
         IN  [i \in DOMAIN ids |-> JsonLoads(redis_record[ids[i]])]

\* _convert_memory_to_excel 465-478: the columns kept of a record
ExcelRow(record) ==
    [source_file |-> record.source_file,
     energy_reference |-> record.energy_reference]

CleanupWal_All(ok) ==
    /\ redis_wal' = IF ok THEN EmptyMap ELSE redis_wal
    /\ redis_wal_index' = IF ok THEN {} ELSE redis_wal_index
    /\ recovered_wal_keys' = {}
    /\ wal_key' = NoKey

\* BatchProcessor._cleanup_wal: the keys of this run's segment and of the
\* recovered segments are deleted in one pipeline (a RedisError is logged),
\* then forgotten.
CleanupWal(ok) ==
    LET keys_to_remove ==
            recovered_wal_keys \cup (IF wal_key # NoKey THEN {wal_key} ELSE {})
    IN  /\ redis_wal' = IF ok
                        THEN [k \in DOMAIN redis_wal \ keys_to_remove |-> redis_wal[k]]
                        ELSE redis_wal
        /\ redis_wal_index' = IF ok THEN redis_wal_index \ keys_to_remove
                              ELSE redis_wal_index
        /\ recovered_wal_keys' = {}
        /\ wal_key' = NoKey

\* How _convert_memory_to_excel ends for the records it fetched.
ExportOutcome(records, write_ok) ==
    IF records = <<>> THEN "nothing"
    ELSE IF write_ok THEN "written" ELSE "raised"

\* The cleanup of _convert_memory_to_excel 492-493, which is in its finally
\* clause: it runs however the export ended.
CleanupAfterExport(outcome, ok) == CleanupWal(ok)

\* process_batch 611-628: the summary of counts is logged after the final
\* export returned; the handler of 630-640 logs none.
SummaryLogged(kind, outcome) == kind = "final" /\ outcome # "raised"

\* BatchProcessor._convert_memory_to_excel.  f[1]: zrange, f[2]: every hget
\* (when it is FALSE the hget of `unreadable` fails), f[3]: writing the
\* workbook, f[4]: the cleanup pipeline.
ConvertMemoryToExcel(kind, f, unreadable) ==
    LET records == FetchAllRecords(f[1], IF f[2] THEN {} ELSE {unreadable})
        outcome == ExportOutcome(records, f[3])
        has_keys == recovered_wal_keys # {} \/ wal_key # NoKey
    IN  /\ ~f[1] => f[2]
        /\ records = <<>> => f[3]
        /\ ~has_keys => f[4]
        /\ excel' = IF outcome = "written"
                    THEN [i \in DOMAIN records |-> ExcelRow(records[i])]
                    ELSE excel
        /\ CleanupAfterExport(outcome, f[4])
        /\ last_export' = [n |-> last_export.n + 1, kind |-> kind,
                           outcome |-> outcome, partial |-> f[1] /\ ~f[2],
                           fetched |-> records,
                           summary |-> SummaryLogged(kind, outcome)]
        /\ faults' = faults + Failures(f)

Drained_NoWait == TRUE

\* excel_executor.shutdown(wait=True) (608 / 636) returns once no submitted
\* write is queued or running.
Drained == excel_executor.queue = 0 /\ excel_executor.running = 0

\* The worker thread of the executor takes the next queued write; at most
\* max_workers writes run at a time.
ExcelWorkerStart ==
    /\ excel_executor.queue > 0
    /\ excel_executor.running < MaxWorkers
    /\ excel_executor' = [excel_executor EXCEPT !.queue = @ - 1, !.running = @ + 1]
    /\ UNCHANGED <<storeVars, redisVars, walVars, failed_sources, counts,
                   source_to_path, wal_key, recovered_wal_keys, posVars, envVars,
                   now, last_store, ext_clean, obsVars>>

\* BatchProcessor._write_excel_background: the records are fetched and the
\* workbook is written; nothing to write returns early, and every exception
\* is logged (449-450).  No WAL cleanup.  f[1]: zrange, f[2]: every hget,
\* f[3]: writing the workbook.
WriteExcelBackground(f, unreadable) ==
    LET records == FetchAllRecords(f[1], IF f[2] THEN {} ELSE {unreadable})
        outcome == IF records = <<>> THEN "nothing"
                   ELSE IF f[3] THEN "written" ELSE "logged"
    IN  /\ ~f[1] => f[2]
        /\ records = <<>> => f[3]
        /\ excel' = IF outcome = "written"
                    THEN [i \in DOMAIN records |-> ExcelRow(records[i])]
                    ELSE excel
        /\ last_export' = [n |-> last_export.n + 1, kind |-> "incremental",
                           outcome |-> outcome, partial |-> f[1] /\ ~f[2],
                           fetched |-> records, summary |-> FALSE]
        /\ faults' = faults + Failures(f)

\* The write running on the worker thread ends.
ExcelWorkerFinish ==
    /\ excel_executor.running > 0
    /\ excel_executor' = [excel_executor EXCEPT !.running = @ - 1]
    /\ \E f \in Oks(3), unreadable \in DOMAIN redis_order \cup {NoId} :
          /\ (unreadable = NoId) = f[2]
          /\ WriteExcelBackground(f, unreadable)
    /\ UNCHANGED <<storeVars, redisVars, walVars, failed_sources, counts,
                   source_to_path, wal_key, recovered_wal_keys, posVars, config,
                   run_no, crashes, now, last_store, ext_clean, last_unit,
                   snapshot>>

\* process_batch 606-628: the background queue is drained, the final export
\* runs, and the call returns; an export that raises goes to the handler.
FinalExport ==
    /\ pc = "export"
    /\ Drained
    /\ excel_executor' = [excel_executor EXCEPT !.shutdown = TRUE]
    /\ \E f \in Oks(4), unreadable \in DOMAIN redis_order \cup {NoId} :
          /\ (unreadable = NoId) = f[2]
          /\ ConvertMemoryToExcel("final", f, unreadable)
          /\ pc' = IF last_export'.outcome = "raised" THEN "fatal" ELSE "done"
    /\ UNCHANGED <<storeVars, redisVars, failed_sources, counts, source_to_path,
                   rec, work, next_i, batch, bars, config, run_no, crashes, now,
                   last_store, ext_clean, last_unit, snapshot>>

FatalExport_Skip ==
    /\ pc = "fatal"
    /\ pc' = "raised"
    /\ UNCHANGED <<storeVars, redisVars, walVars, bookVars, rec, work, next_i,
                   batch, bars, envVars, now, last_store, ext_clean, obsVars>>

\* process_batch 630-640: the handler of a fatal error tries the export once
\* more, swallows what that raises, and re-raises the error.
FatalExport ==
    /\ pc = "fatal"
    /\ Drained
    /\ excel_executor' = [excel_executor EXCEPT !.shutdown = TRUE]
    /\ \E f \in Oks(4), unreadable \in DOMAIN redis_order \cup {NoId} :
          /\ (unreadable = NoId) = f[2]
          /\ ConvertMemoryToExcel("fatal", f, unreadable)
    /\ pc' = "raised"
    /\ UNCHANGED <<storeVars, redisVars, failed_sources, counts, source_to_path,
                   rec, work, next_i, batch, bars, config, run_no, crashes, now,
                   last_store, ext_clean, last_unit, snapshot>>

\* The process dies (kill, power loss) anywhere in a run: what was in memory
\* is gone, the external store stays, and the next process starts from a
\* fresh instance.
Crash ==
    /\ pc \in {"recover", "primary", "fallback", "export"}
    /\ crashes < config.max_crashes
    /\ crashes' = crashes + 1
    /\ FreshInstance
    /\ UNCHANGED <<redisVars, walVars, config, excel, run_no, faults, now,
                   last_store, ext_clean, obsVars>>

\* main(): the program is started again on the same documents after a run
\* that returned or raised.
NewProcess ==
    /\ pc \in {"done", "raised"}
    /\ run_no < config.max_runs
    /\ FreshInstance
    /\ UNCHANGED <<redisVars, walVars, envVars, now, last_store, ext_clean, obsVars>>

\* The process dies inside a unit, between _store_result (719) and
\* _append_to_wal (722): the record reached the external store, not the WAL.
CrashInUnit ==
    /\ pc \in {"primary", "fallback"}
    /\ crashes < config.max_crashes
    /\ \E k \in DOMAIN batch :
          /\ batch[k].st = "await"
          /\ \E o \in Allowed(batch[k].path, PassMethod) :
                /\ o.kind = "record"
                /\ LET source == batch[k].path.name
                       record == NewRecord(source, o.ref, now, PassMethod)
                       replaced == HasLive(source)
                       existing == results[index_by_source[source]]
                   IN  PersistRecordToRedis(record, BuildRecordIdentifier(record),
                           IF replaced THEN BuildRecordIdentifier(existing) ELSE NoId,
                           IF replaced THEN existing.energy_reference ELSE NoRef,
                           TRUE)
    /\ now' = now + 1
    /\ crashes' = crashes + 1
    /\ FreshInstance
    /\ UNCHANGED <<walVars, config, excel, run_no, faults, last_store, ext_clean,
                   obsVars>>

Next ==
    \/ StartRun
    \/ RecoverSegment
    \/ RecoverEntry
    \/ RecoverSegmentDone
    \/ RecoverDone
    \/ StartWindow
    \/ UnitComplete
    \/ WindowDone
    \/ EndPrimary
    \/ EndFallback
    \/ FinalExport
    \/ FatalExport
    \/ Crash
    \/ CrashInUnit
    \/ NewProcess

-----------------------------------------------------------------------------
(* The runs explored: a few documents, a failure budget for the external    *)
(* store and the workbook, and a number of crashes and restarts.            *)

MaxFaults == 1
MaxCrashes == 1
MaxRuns == 2

R14 == <<"1", "2", "3", "4", "5", "6", "7", "8", "9", "0", "1", "2", "3", "4">>
R8 == <<"Z", "Z", "Z", "Z", "1", "2", "3", "4">>
R8Lower == <<"z", "z", "z", "z", "1", "2", "3", "4">>
BadRef == <<"N", "/", "A">>

Path(name) == [dir |-> "in", name |-> name]

Methods == {"image", "text"}

\* Extraction is not a function of the document: a model call, an OCR run or
\* the file system may answer differently from one attempt to the next.
AnyOutcome ==
    [m \in Methods |->
        IF m = "image" THEN {NoRender, Raises, Extracted(R8), Extracted(BadRef)}
        ELSE {NoData, Extracted(R14)}]

\* Deterministic extraction: one outcome per document and method.
Fixed(primary, fallback) ==
    [m \in Methods |-> IF m = "image" THEN {primary} ELSE {fallback}]

RunDocs == <<Path("a.pdf"), Path("b.pdf"), Path("c.pdf")>>

Docs == {RunDocs[i] : i \in DOMAIN RunDocs}

AnyOracle == [p \in Docs |-> AnyOutcome]

FixedOracles ==
    { [p \in Docs |->
          IF p.name = "a.pdf" THEN Fixed(Extracted(BadRef), Extracted(R14))
          ELSE Fixed(Extracted(R8), NoData)],
      [p \in Docs |->
          IF p.name = "a.pdf" THEN Fixed(Raises, Extracted(R8Lower))
          ELSE Fixed(Extracted(R8), Extracted(R14))],
      [p \in Docs |->
          IF p.name = "a.pdf" THEN Fixed(NoRender, Extracted(R14))
          ELSE Fixed(Extracted(R8), NoData)] }

Deterministic ==
    \A p \in DOMAIN config.oracle : \A m \in Methods :
        Cardinality(config.oracle[p][m]) = 1

Config(pdf_files, mc, fb, o, max_faults, max_crashes, max_runs) ==
    [pdf_files |-> pdf_files, max_concurrent |-> mc, method |-> "image",
     fallback_method |-> fb, oracle |-> o, max_faults |-> max_faults,
     max_crashes |-> max_crashes, max_runs |-> max_runs]

\* Single runs with any extraction outcome and failing external operations;
\* interrupted and restarted runs with deterministic extraction; a run of
\* one document in which one more operation may fail.
RunConfigs ==
    {Config(RunDocs, 2, fb, AnyOracle, MaxFaults, 0, 1) :
        fb \in {NoMethod, "text"}}
    \cup
    {Config(SubSeq(RunDocs, 1, 2), mc, "text", o, 0, MaxCrashes, MaxRuns) :
        mc \in {1, 2}, o \in FixedOracles}
    \cup
    {Config(SubSeq(RunDocs, 1, 1), 1, "text", o, MaxFaults, MaxCrashes, MaxRuns) :
        o \in FixedOracles}
    \cup
    {Config(SubSeq(RunDocs, 1, 1), 1, NoMethod, AnyOracle, MaxFaults + 1, 0, 1)}

Init == \E cfg \in RunConfigs : InitWith(cfg)

Spec == Init /\ [][Next]_vars

-----------------------------------------------------------------------------
(* Record Store on its own: any sequence of store operations, with runs     *)
(* (resets of the in-memory indices) in between.                            *)

MaxStores == 3

Sources == {"a.pdf", "b.pdf"}

StoreRefs == {NoRef, BadRef, R14, R8, R8Lower}

StoreConfig ==
    [pdf_files |-> <<>>, max_concurrent |-> 1, method |-> "image",
     fallback_method |-> NoMethod, oracle |-> EmptyMap, max_faults |-> 0,
     max_crashes |-> 0, max_runs |-> 0]

InitStore == InitWith(StoreConfig)

\* One completed extraction stored: the record of 713-716, then 719.
StoreOp ==
    /\ last_store.n < MaxStores
    /\ \E source \in Sources, reference \in StoreRefs, ok \in BOOLEAN :
           StoreResult(NewRecord(source, reference, now, "image"), ok)
    /\ now' = now + 1
    /\ UNCHANGED runVars

\* A new run starts on the same external store.
ResetOp ==
    /\ results # <<>>
    /\ last_store.n < MaxStores
    /\ ResetMemory
    /\ ext_clean' = (ext_clean /\ DOMAIN redis_order = {} /\ redis_refs = {})
    /\ UNCHANGED <<redisVars, now, last_store, runVars>>

NextStore == StoreOp \/ ResetOp

SpecStore == InitStore /\ [][NextStore]_vars

-----------------------------------------------------------------------------
(* References of every shape: records are stored whose reference is         *)
(* missing, padded, too short, too long, all digits or not alphanumeric.    *)

MaxRefStores == 2

R8Digits == <<"1", "2", "3", "4", "5", "6", "7", "8">>

Pad(ref) == <<" ">> \o ref \o <<" ">>

RefInputs ==
    {NoRef, <<" ">>, BadRef, R14, R8, R8Lower, R8Digits,
     Pad(R14), Pad(R8), Pad(R8Digits),
     SubSeq(R14, 1, 13), R14 \o <<"5">>, [R14 EXCEPT ![1] = "A"],
     SubSeq(R8, 1, 7), R8 \o <<"5">>, [R8 EXCEPT ![1] = "-"]}

\* One completed extraction stored (713-719), its reference of any shape.
RefOp ==
    /\ last_store.n < MaxRefStores
    /\ \E source \in Sources, reference \in RefInputs :
           StoreResult(NewRecord(source, reference, now, "image"), TRUE)
    /\ now' = now + 1
    /\ UNCHANGED runVars

SpecRef == InitStore /\ [][RefOp]_vars


-----------------------------------------------------------------------------
(* Replay on its own: a run writes a WAL segment and dies, and the segment  *)
(* is then replayed through _store_result twice.                            *)

MaxSegment == 3

ReplayRefs == {R8, R8Lower, BadRef}

ReplayConfig ==
    [pdf_files |-> <<>>, max_concurrent |-> 1, method |-> "image",
     fallback_method |-> NoMethod, oracle |-> EmptyMap, max_faults |-> MaxFaults,
     max_crashes |-> 0, max_runs |-> 0]

ReplaySegment == <<"wal", 0>>

InitReplay == InitWith(ReplayConfig)

\* _process_single_pdf 713-722 in the run that dies: the record is stored
\* and appended to the run's segment.
ProduceEntry ==
    /\ pc = "idle"
    /\ Len(Lrange(ReplaySegment)) < MaxSegment
    /\ \E source \in Sources, reference \in ReplayRefs :
          LET record == NewRecord(source, reference, now, "image")
          IN  /\ StoreResult(record, TRUE)
              /\ redis_wal' = Put(redis_wal, ReplaySegment,
                                  Append(Lrange(ReplaySegment), WalEntry(record)))
    /\ redis_wal_index' = redis_wal_index \cup {ReplaySegment}
    /\ wal_key' = ReplaySegment
    /\ now' = now + 1
    /\ UNCHANGED <<failed_sources, counts, source_to_path, recovered_wal_keys,
                   excel_executor, posVars, envVars, obsVars>>

\* The run dies; a fresh instance (process_batch 507-512) reads the segment
\* (379-383).
BeginReplay ==
    /\ pc = "idle"
    /\ Lrange(ReplaySegment) # <<>>
    /\ ResetMemory
    /\ wal_key' = NoKey
    /\ pc' = "recover"
    /\ rec' = [NoRecovery EXCEPT !.cur = ReplaySegment,
                                 !.entries = Lrange(ReplaySegment)]
    /\ UNCHANGED <<redisVars, walVars, failed_sources, counts, source_to_path,
                   recovered_wal_keys, excel_executor, work, next_i, batch, bars,
                   envVars, now, last_store, ext_clean, obsVars>>

\* The first replay is over: the same segment is replayed once more.
ReplayAgain ==
    /\ pc = "recover"
    /\ rec.entries = <<>>
    /\ ~snapshot.known
    /\ snapshot' = [known |-> TRUE, store |-> RecordStore, faults |-> faults]
    /\ rec' = [rec EXCEPT !.entries = Lrange(ReplaySegment)]
    /\ UNCHANGED <<storeVars, redisVars, walVars, bookVars, pc, work, next_i,
                   batch, bars, envVars, now, last_store, ext_clean, last_unit,
                   last_export>>

ReplayDone ==
    /\ pc = "recover"
    /\ rec.entries = <<>>
    /\ snapshot.known
    /\ pc' = "replayed"
    /\ UNCHANGED <<storeVars, redisVars, walVars, bookVars, rec, work, next_i,
                   batch, bars, envVars, now, last_store, ext_clean, obsVars>>

NextReplay == ProduceEntry \/ BeginReplay \/ RecoverEntry \/ ReplayAgain \/ ReplayDone

SpecReplay == InitReplay /\ [][NextReplay]_vars

-----------------------------------------------------------------------------
(* Replay of a damaged segment: between the run that wrote it and the       *)
(* recovery, entries of the segment stop being parseable.                   *)

MaxCorrupt == 1

CorruptConfig == [ReplayConfig EXCEPT !.max_faults = 0]

InitCorrupt == InitWith(CorruptConfig)

\* The entries of the segment json.loads would reject
Corrupted == {i \in DOMAIN Lrange(ReplaySegment) : ~Lrange(ReplaySegment)[i].valid}

\* Something other than the program damages an entry (a truncated write, an
\* edit by hand): json.loads raises JSONDecodeError on it (389-398).
CorruptEntry ==
    /\ pc = "idle"
    /\ Cardinality(Corrupted) < MaxCorrupt
    /\ \E i \in DOMAIN Lrange(ReplaySegment) \ Corrupted :
          redis_wal' = [redis_wal EXCEPT ![ReplaySegment][i].valid = FALSE]
    /\ UNCHANGED <<storeVars, redisVars, redis_wal_index, bookVars, posVars,
                   envVars, now, last_store, ext_clean, obsVars>>

NextCorrupt ==
    \/ ProduceEntry
    \/ CorruptEntry
    \/ BeginReplay
    \/ RecoverEntry
    \/ ReplayAgain
    \/ ReplayDone

SpecCorrupt == InitCorrupt /\ [][NextCorrupt]_vars


-----------------------------------------------------------------------------
(* Long runs: enough documents for the incremental export of the primary    *)
(* pass to be scheduled, with the worker thread of the executor writing     *)
(* while the run goes on.                                                   *)

MaxDocs == 41

DigitSeq == <<"0", "1", "2", "3", "4", "5", "6", "7", "8", "9">>

\* The i-th document of a long run and the 14-digit reference on it.
LongDoc(i) == Path("d" \o ToString(i) \o ".pdf")

LongRef(i) ==
    [j \in 1..14 |-> IF j = 14 THEN DigitSeq[(i % 10) + 1]
                     ELSE IF j = 13 THEN DigitSeq[((i \div 10) % 10) + 1]
                     ELSE "1"]

LongDocs == [i \in 1..MaxDocs |-> LongDoc(i)]

\* Every document is extracted, each with its own reference.
LongOracle ==
    [p \in {LongDocs[i] : i \in DOMAIN LongDocs} |->
        Fixed(Extracted(LongRef(CHOOSE i \in DOMAIN LongDocs : LongDocs[i] = p)),
              NoData)]

\* Twice as many documents as the export period, for windows of two: every
\* window but the last holds one document that is extracted and one that
\* yields no data, and both documents of the last window are extracted.
SparseDocs == [i \in 1..(2 * ExcelEvery) |-> LongDoc(i)]

SparseOracle ==
    [p \in {SparseDocs[i] : i \in DOMAIN SparseDocs} |->
        LET i == CHOOSE j \in DOMAIN SparseDocs : SparseDocs[j] = p
        IN  IF i % 2 = 1 \/ i = Len(SparseDocs)
            THEN Fixed(Extracted(LongRef(i)), NoData)
            ELSE Fixed(NoData, NoData)]

\* Windows of one document: a run long enough for two incremental exports,
\* and a run long enough for one in which one external operation may fail.
\* Windows of two documents in which some extractions yield nothing.
ExportConfigs ==
    {Config(LongDocs, 1, NoMethod, LongOracle, 0, 0, 1),
     Config(SubSeq(LongDocs, 1, ExcelEvery + 1), 1, NoMethod, LongOracle, 1, 0, 1),
     Config(SparseDocs, 2, NoMethod, SparseOracle, 0, 0, 1)}

InitExport == \E cfg \in ExportConfigs : InitWith(cfg)

NextExport ==
    \/ StartRun
    \/ StartWindow
    \/ UnitComplete
    \/ WindowDone
    \/ EndPrimary
    \/ ExcelWorkerStart
    \/ ExcelWorkerFinish
    \/ FinalExport
    \/ FatalExport

SpecExport == InitExport /\ [][NextExport]_vars

-----------------------------------------------------------------------------
(* Two documents of different directories with the same file name: the      *)
(* Record Store is keyed by pdf_path.name.                                   *)

Twin(name) == [dir |-> "in2", name |-> name]

TwinDocs == <<Path("a.pdf"), Twin("a.pdf"), Path("b.pdf")>>

TwinPaths == {TwinDocs[i] : i \in DOMAIN TwinDocs}

\* The two documents called a.pdf never yield the same reference.
TwinOracle ==
    [p \in TwinPaths |->
        [m \in Methods |->
            IF p.dir = "in2" THEN {Extracted(R14)}
            ELSE IF m = "image" THEN {Extracted(R8), Extracted(BadRef)}
            ELSE {Extracted(R8Lower), NoData}]]

TwinFailing ==
    [p \in TwinPaths |->
        [m \in Methods |->
            IF p.dir = "in2" THEN {Extracted(R14), NoData}
            ELSE {Extracted(R8), Raises}]]

TwinConfigs ==
    {Config(TwinDocs, mc, fb, TwinOracle, 0, 0, 1) :
        mc \in {2, 3}, fb \in {NoMethod, "text"}}
    \cup
    {Config(TwinDocs, 2, "text", TwinFailing, 0, 0, 1)}

InitTwin == \E cfg \in TwinConfigs : InitWith(cfg)

NextTwin ==
    \/ StartRun
    \/ StartWindow
    \/ UnitComplete
    \/ WindowDone
    \/ EndPrimary
    \/ EndFallback
    \/ FinalExport

SpecTwin == InitTwin /\ [][NextTwin]_vars

-----------------------------------------------------------------------------
(* The end of a unit of work step by step: the record is built, the lock    *)
(* on the results is taken, the record is stored, the lock is released and  *)
(* the record is appended to the WAL.  Nothing is awaited from the moment   *)
(* the record is built, so on the event loop these steps of one unit are    *)
(* not interleaved with those of another.                                   *)

\* Every document is extracted, with one of three references.
LockOracle ==
    [p \in Docs \cup TwinPaths |->
        [m \in Methods |-> {Extracted(R8), Extracted(R14), Extracted(BadRef)}]]

LockConfigs ==
    {Config(docs, 2, NoMethod, LockOracle, 0, 0, 1) : docs \in {RunDocs, TwinDocs}}

InitLock == \E cfg \in LockConfigs : InitWith(cfg)

\* A unit is past its last await and has not returned.
InSection(k) == batch[k].st \in {"locked", "stored", "released"}

\* self.results_lock is held (async with, 718-720).
LockHeld == \E k \in DOMAIN batch : batch[k].st \in {"locked", "stored"}

\* _process_single_pdf 712-718: the record is built and results_lock, which
\* is free, is acquired.
LockAcquire ==
    /\ pc \in {"primary", "fallback"}
    /\ \E k \in DOMAIN batch :
          /\ batch[k].st = "await"
          /\ \A j \in DOMAIN batch : ~InSection(j)
          /\ ~LockHeld
          /\ \E o \in Allowed(batch[k].path, PassMethod) :
                /\ o.kind = "record"
                /\ batch' = [batch EXCEPT ![k] =
                      [path |-> batch[k].path, st |-> "locked",
                       record |-> NewRecord(batch[k].path.name, o.ref, now,
                                            PassMethod)]]
    /\ now' = now + 1
    /\ UNCHANGED <<storeVars, redisVars, walVars, bookVars, pc, rec, work, next_i,
                   bars, envVars, last_store, ext_clean, obsVars>>

\* _process_single_pdf 719-720, inside the async with block: _store_result
\* (the in-memory update and the commit to the external store) and the
\* discard from failed_sources.
LockedStore ==
    /\ \E k \in DOMAIN batch :
          /\ batch[k].st = "locked"
          /\ \E f \in Oks(1) :
                /\ StoreResult(batch[k].record, f[1])
                /\ faults' = faults + Failures(f)
          /\ failed_sources' = failed_sources \ {batch[k].path.name}
          /\ batch' = [batch EXCEPT ![k].st = "stored"]
    /\ UNCHANGED <<walVars, counts, source_to_path, wal_key, recovered_wal_keys,
                   excel_executor, pc, rec, work, next_i, bars, config, excel,
                   run_no, crashes, now, obsVars>>

\* The async with block is left (720): results_lock is released.
LockRelease ==
    /\ \E k \in DOMAIN batch :
          /\ batch[k].st = "stored"
          /\ batch' = [batch EXCEPT ![k].st = "released"]
    /\ UNCHANGED <<storeVars, redisVars, walVars, bookVars, pc, rec, work, next_i,
                   bars, envVars, now, last_store, ext_clean, obsVars>>

\* _process_single_pdf 722-749: the record is appended to the WAL
\* (_ensure_wal_key, _append_to_wal), the unit is counted and returns.
\* f[1]: SADD wal:index, f[2]: RPUSH.
AppendAndReturn ==
    \E k \in DOMAIN batch :
        /\ batch[k].st = "released"
        /\ \E f \in Oks(2) :
              LET name == batch[k].path.name
                  need_key == wal_key = NoKey
                  key == IF need_key THEN <<"wal", run_no>> ELSE wal_key
                  wal_error == need_key /\ ~f[1]
              IN  /\ ~need_key => f[1]
                  /\ wal_error => f[2]
                  /\ wal_key' = key
                  /\ redis_wal_index' =
                         IF need_key /\ f[1] THEN redis_wal_index \cup {key}
                         ELSE redis_wal_index
                  /\ redis_wal' =
                         IF ~wal_error /\ f[2]
                         THEN Put(redis_wal, key,
                                  Rpush(Lrange(key), WalEntry(batch[k].record)))
                         ELSE redis_wal
                  /\ failed_sources' = IF wal_error THEN failed_sources \cup {name}
                                       ELSE failed_sources
                  /\ counts' = IF wal_error THEN CountFailure(counts, IsFallback)
                               ELSE CountSuccess(counts, IsFallback)
                  /\ faults' = faults + Failures(f)
                  /\ UnitEnds(k, IF wal_error THEN "wal_error" ELSE "stored")
        /\ UNCHANGED <<storeVars, redisVars, source_to_path, recovered_wal_keys,
                       excel_executor, pc, rec, work, next_i, config, excel,
                       run_no, crashes, now, last_store, ext_clean, last_export,
                       snapshot>>

NextLock ==
    \/ StartRun
    \/ StartWindow
    \/ LockAcquire
    \/ LockedStore
    \/ LockRelease
    \/ AppendAndReturn
    \/ WindowDone
    \/ EndPrimary
    \/ FinalExport

SpecLock == InitLock /\ [][NextLock]_vars

-----------------------------------------------------------------------------
(* Runs under fair scheduling: the event loop resumes every coroutine that  *)
(* can go on, and units of work and exports end, so a step of the run that  *)
(* stays possible is eventually taken.  Kills and restarts are not          *)
(* scheduled by anyone.                                                     *)

LiveConfigs ==
    {Config(SubSeq(RunDocs, 1, 2), mc, "text", o, 0, MaxCrashes, MaxRuns) :
        mc \in {1, 2}, o \in FixedOracles}
    \cup
    {Config(SubSeq(RunDocs, 1, 1), 1, NoMethod, AnyOracle, MaxFaults, 0, 1)}

InitLive == \E cfg \in LiveConfigs : InitWith(cfg)

\* The steps process_batch takes by itself.
RunStep ==
    \/ StartRun
    \/ RecoverSegment
    \/ RecoverEntry
    \/ RecoverSegmentDone
    \/ RecoverDone
    \/ StartWindow
    \/ UnitComplete
    \/ WindowDone
    \/ EndPrimary
    \/ EndFallback
    \/ FinalExport
    \/ FatalExport

SpecLive == InitLive /\ [][Next]_vars /\ WF_vars(RunStep)

-----------------------------------------------------------------------------
(* EnergyInvoiceRecord (models/schema.py): construction from keyword        *)
(* arguments.  The pipeline calls model_dump and model_validate_json on     *)
(* this class, the interface of pydantic 2, under which a field annotated   *)
(* Optional[...] without a default must be given (None is accepted as its   *)
(* value) and only a field that has a default may be omitted.               *)

None == "None"

\* The fields declared without a default (schema.py 12-29).
RequiredFields ==
    {"supplier", "site_name", "energy_reference", "energy_reference_type",
     "energy_reference_length", "address_consumption", "address_billing",
     "postal_code", "city", "energy_segment", "tariff_segment",
     "contract_expiry_date", "contract_start_date", "termination_notice",
     "renewal_terms", "client_siren_siret", "regulated_tariff"}

\* The fields declared with a default (schema.py 11, 22, 32-37).
FieldDefaults ==
    [f \in {"document_date", "offer_tags", "is_valid_energy_invoice",
            "rejection_reason"} |->
        CASE f = "offer_tags" -> <<>>
          [] f = "is_valid_energy_invoice" -> "True"
          [] OTHER -> None]

SchemaFields == RequiredFields \cup DOMAIN FieldDefaults

\* EnergyReferenceType (schema.py 6) and the Literal of regulated_tariff (29)
EnergyReferenceType == {"PCE", "PDL", "PRM"}

ValueAccepted(f, v) ==
    CASE f = "energy_reference_type" -> v \in EnergyReferenceType \cup {None}
      [] f = "regulated_tariff" -> v \in {"Oui", "Non", None}
      [] OTHER -> TRUE

\* EnergyInvoiceRecord(**kwargs): a ValidationError when a required field is
\* missing or a value is not accepted, else the object with the defaults
\* filled in.
Construct(kwargs) ==
    LET missing == RequiredFields \ DOMAIN kwargs
        refused == {f \in DOMAIN kwargs : ~ValueAccepted(f, kwargs[f])}
    IN  IF missing = {} /\ refused = {}
        THEN [ok |-> TRUE,
              value |-> [f \in SchemaFields |->
                            IF f \in DOMAIN kwargs THEN kwargs[f]
                            ELSE FieldDefaults[f]]]
        ELSE [ok |-> FALSE, missing |-> missing, refused |-> refused]

\* The keyword arguments of tests/smoke_test.py, and others given as None.
SmokeFields == {"supplier", "energy_reference", "energy_reference_type"}

SomeOthers ==
    {"site_name", "energy_reference_length", "postal_code", "city",
     "regulated_tariff"}

SchemaInputs ==
    {[f \in SmokeFields \cup extra |->
         CASE f = "supplier" -> "EDF"
           [] f = "energy_reference" -> reference
           [] f = "energy_reference_type" -> type
           [] OTHER -> None] :
        extra \in SUBSET SomeOthers \cup {RequiredFields \ SmokeFields},
        reference \in {R14, R8},
        type \in EnergyReferenceType \cup {"XYZ"}}

\* config holds the keyword arguments of the call.
InitSchema == \E kwargs \in SchemaInputs : InitWith([kwargs |-> kwargs])

\* The call is made; rec holds what it gives.
SchemaOp ==
    /\ pc = "idle"
    /\ pc' = "done"
    /\ rec' = Construct(config.kwargs)
    /\ UNCHANGED <<storeVars, redisVars, walVars, bookVars, work, next_i, batch,
                   bars, envVars, now, last_store, ext_clean, obsVars>>

SpecSchema == InitSchema /\ [][SchemaOp]_vars

-----------------------------------------------------------------------------
(* A run that follows a run over another directory: the earlier run left a  *)
(* record of a document that is not in this run's document set in the       *)
(* external store and, when it was killed, in its WAL segment.               *)

StrayDocs == <<Path("a.pdf"), Path("b.pdf")>>

StraySource == "z.pdf"

StraySegment == <<"wal", 0>>

StrayOracle ==
    [p \in Docs |->
        IF p.name = "a.pdf"
        THEN [m \in Methods |->
                 IF m = "image" THEN {Extracted(BadRef), Raises}
                 ELSE {Extracted(R14), NoData}]
        ELSE [m \in Methods |->
                 IF m = "image" THEN {Extracted(R8), Raises}
                 ELSE {Extracted(R8)}]]

StrayConfigs ==
    {Config(StrayDocs, mc, fb, StrayOracle, 0, 0, 1) :
        mc \in {1, 2}, fb \in {NoMethod, "text"}}

InitStray == \E cfg \in StrayConfigs : InitWith(cfg)

\* _process_single_pdf 713-722 in the earlier run: its record is in the
\* external store.  When the run was killed before its export the record is
\* also in its segment; when it ended, _cleanup_wal (241-259) has deleted the
\* segment.  Nothing of its memory is left.
EarlierRun ==
    /\ pc = "idle"
    /\ run_no = 0
    /\ DOMAIN redis_record = {}
    /\ \E reference \in {BadRef, R14}, killed \in BOOLEAN :
          LET record == NewRecord(StraySource, reference, now, "image")
          IN  /\ PersistRecordToRedis(record, BuildRecordIdentifier(record),
                                      NoId, NoRef, TRUE)
              /\ redis_wal' = IF killed
                              THEN Put(redis_wal, StraySegment, <<WalEntry(record)>>)
                              ELSE redis_wal
              /\ redis_wal_index' = IF killed THEN {StraySegment} ELSE redis_wal_index
    /\ now' = now + 1
    /\ UNCHANGED <<storeVars, bookVars, posVars, envVars, last_store, ext_clean,
                   obsVars>>

NextStray ==
    \/ EarlierRun
    \/ StartRun
    \/ RecoverSegment
    \/ RecoverEntry
    \/ RecoverSegmentDone
    \/ RecoverDone
    \/ StartWindow
    \/ UnitComplete
    \/ WindowDone
    \/ EndPrimary
    \/ EndFallback
    \/ FinalExport

SpecStray == InitStray /\ [][NextStray]_vars

-----------------------------------------------------------------------------
(* Two runs on one external store: while this run works, the process of     *)
(* another run, which does not end here, stores records and appends them to *)
(* its own segment.                                                          *)

MaxOther == 2

OtherSegment == <<"wal", 0>>

\* The documents of the other run.
OtherSource(n) == IF n = 0 THEN "y.pdf" ELSE "z.pdf"

SharedOracle == [p \in Docs |-> Fixed(Extracted(R8), NoData)]

SharedConfigs ==
    {Config(SubSeq(RunDocs, 1, n), 1, NoMethod, SharedOracle, 0, 0, 1) : n \in {1, 2}}

InitShared == \E cfg \in SharedConfigs : InitWith(cfg)

\* _process_single_pdf 713-722 in the other process: the record goes to the
\* external store and to the other run's segment, which _ensure_wal_key
\* (99-111) registers at the first append.  An append after the segment was
\* deleted is not followed further.
OtherRunAppends ==
    /\ Len(Lrange(OtherSegment)) < MaxOther
    /\ \/ OtherSegment \in redis_wal_index
       \/ /\ OtherSegment \notin DOMAIN redis_wal
          /\ pc \in {"idle", "recover", "primary"}
    /\ LET record == NewRecord(OtherSource(Len(Lrange(OtherSegment))), BadRef,
                               now, "image")
       IN  /\ PersistRecordToRedis(record, BuildRecordIdentifier(record),
                                   NoId, NoRef, TRUE)
           /\ redis_wal' = Put(redis_wal, OtherSegment,
                               Rpush(Lrange(OtherSegment), WalEntry(record)))
    /\ redis_wal_index' = redis_wal_index \cup {OtherSegment}
    /\ now' = now + 1
    /\ UNCHANGED <<storeVars, bookVars, posVars, envVars, last_store, ext_clean,
                   obsVars>>

NextShared ==
    \/ OtherRunAppends
    \/ StartRun
    \/ RecoverSegment
    \/ RecoverEntry
    \/ RecoverSegmentDone
    \/ RecoverDone
    \/ StartWindow
    \/ UnitComplete
    \/ WindowDone
    \/ EndPrimary
    \/ FinalExport

SpecShared == InitShared /\ [][NextShared]_vars

-----------------------------------------------------------------------------
(* process_batch called again on the instance that has already run it: the  *)
(* caller keeps the BatchProcessor and every field __init__ gave it.         *)

AgainConfigs ==
    {Config(SubSeq(LongDocs, 1, ExcelEvery), 1, NoMethod, LongOracle, 0, 0, MaxRuns)}

InitAgain == \E cfg \in AgainConfigs : InitWith(cfg)

\* process_batch has returned or raised (628 / 640-642) and the caller calls
\* it once more on the same object.
CallAgain ==
    /\ pc \in {"done", "raised"}
    /\ run_no < config.max_runs
    /\ pc' = "idle"
    /\ UNCHANGED <<storeVars, redisVars, walVars, bookVars, rec, work, next_i,
                   batch, bars, envVars, now, last_store, ext_clean, obsVars>>

NextAgain ==
    \/ StartRun
    \/ StartWindow
    \/ UnitComplete
    \/ WindowDone
    \/ EndPrimary
    \/ ExcelWorkerStart
    \/ ExcelWorkerFinish
    \/ FinalExport
    \/ FatalExport
    \/ CallAgain

SpecAgain == InitAgain /\ [][NextAgain]_vars

-----------------------------------------------------------------------------
(* Properties of the Record Store.                                          *)

\* A step that is one call of _store_result.
StoreStep == last_store'.n = last_store.n + 1

\* The live record of a source after the step.
LiveAfter(source) == results'[index_by_source'[source]]

\* The normalized valid references carried by the live records.
LiveRefs ==
    {NormalizeRef(results[i].energy_reference) :
        i \in {j \in DOMAIN results :
                  IsValidEnergyReference(results[j].energy_reference)}}

\* C1: the Record Store holds at most one live record per source, the source
\* index points at exactly that record, and a store for a source that already
\* has a record replaces it at its position without adding an entry.
C1_OneLivePerSource ==
    /\ [](/\ \A i, j \in DOMAIN results :
                results[i].source_file = results[j].source_file => i = j
          /\ DOMAIN index_by_source =
                {results[i].source_file : i \in DOMAIN results}
          /\ \A s \in DOMAIN index_by_source :
                /\ index_by_source[s] \in DOMAIN results
                /\ results[index_by_source[s]].source_file = s)
    /\ [][StoreStep /\ last_store'.source \in DOMAIN index_by_source
            => /\ last_store'.replaced
               /\ Len(results') = Len(results)
               /\ index_by_source' = index_by_source]_vars

C1_Witness ==
    /\ last_store.replaced
    /\ Len(results) = 2
    /\ last_store.source = results[1].source_file

\* The case of C2: a store that replaces the live record of its source with
\* a record whose valid reference differs (once normalized) from the one the
\* replaced record carried.
C2_Case ==
    /\ StoreStep
    /\ last_store'.replaced
    /\ IsValidEnergyReference(LiveAfter(last_store'.source).energy_reference)
    /\ NormalizeRef(LiveAfter(last_store'.source).energy_reference)
           # NormalizeRef(last_store'.previous_reference)

C2_Post ==
    /\ NormalizeRef(LiveAfter(last_store'.source).energy_reference) \in redis_refs'
    /\ last_store'.previous_reference # NoRef
           => NormalizeRef(last_store'.previous_reference) \notin redis_refs'

C3_RefsMatchLive == ext_clean => redis_refs = LiveRefs

\* The case of C4: a store for a source that already has a record.
C4_Case == StoreStep /\ last_store'.replaced

C4_Differs == last_store'.previous_identifier # last_store'.record_identifier

C4_PreviousGone ==
    /\ last_store'.previous_identifier \notin DOMAIN redis_order'
    /\ last_store'.previous_identifier \notin DOMAIN redis_record'
    /\ IsValidEnergyReference(last_store'.previous_reference)
           => NormalizeRef(last_store'.previous_reference) \notin redis_refs'

C4_NothingRetracted ==
    /\ DOMAIN redis_order \subseteq DOMAIN redis_order'
    /\ DOMAIN redis_record \subseteq DOMAIN redis_record'
    /\ redis_refs \subseteq redis_refs'

C4_PayloadWritten ==
    /\ last_store'.record_identifier \in DOMAIN redis_record'
    /\ redis_record'[last_store'.record_identifier]
           = JsonDumps(LiveAfter(last_store'.source))

-----------------------------------------------------------------------------
(* Properties of the run.                                                   *)

\* The one outcome of a document under a method when extraction is
\* deterministic.
Only(path, method) == CHOOSE o \in config.oracle[path][method] : TRUE

\* What a run that is never interrupted leaves for a document: the fallback
\* record when the primary attempt failed or gave an invalid reference and
\* the fallback extracted something, else the primary record, else nothing.
UninterruptedRecord(path) ==
    LET first == Only(path, config.method)
        second == Only(path, config.fallback_method)
        again == /\ config.fallback_method # NoMethod
                 /\ \/ first.kind \in {"nodata", "raise"}
                    \/ first.kind = "record" /\ ~IsValidEnergyReference(first.ref)
    IN  IF again /\ second.kind = "record"
        THEN {Content(NewRecord(path.name, second.ref, 0, config.fallback_method))}
        ELSE IF first.kind = "record"
        THEN {Content(NewRecord(path.name, first.ref, 0, config.method))}
        ELSE {}

UninterruptedContents ==
    UNION {UninterruptedRecord(config.pdf_files[i]) : i \in DOMAIN config.pdf_files}

C5_Case == pc = "done" /\ Deterministic /\ faults = 0

\* C5: with deterministic extraction and an external store that answers, a
\* run that completes holds the same records (timestamps aside), whether it
\* was never interrupted or follows runs that crashed after any number of
\* units and recovers their WAL; the external store holds exactly the
\* identifiers of those records, each with the payload of one of them.
C5_CrashRecoveryEquivalence ==
    C5_Case =>
        /\ Contents = UninterruptedContents
        /\ Len(results) = Cardinality(UninterruptedContents)
        /\ DOMAIN redis_record = {BuildRecordIdentifier(c) : c \in UninterruptedContents}
        /\ DOMAIN redis_order = DOMAIN redis_record
        /\ \A id \in DOMAIN redis_record :
              Content(JsonLoads(redis_record[id])) \in
                  {JsonDumps(c) : c \in {d \in UninterruptedContents :
                                            BuildRecordIdentifier(d) = id}}

C5_Witness ==
    /\ C5_Case
    /\ crashes >= 1
    /\ rec.total >= 1
    /\ Len(results) = 2

\* A store of a replay that follows the first replay of the segment.
SecondReplayStore == StoreStep /\ snapshot.known /\ pc = "recover"

C6_Replayed == pc = "replayed"

C6_SameStore == RecordStore = snapshot.store

C6_SameMemory ==
    /\ results = snapshot.store.results
    /\ index_by_source = snapshot.store.index_by_source
    /\ processed_references = snapshot.store.processed_references

ExportStep == last_export'.n = last_export.n + 1

\* C7: an export that raises or writes nothing deletes no WAL segment and
\* removes none from wal:index.
C7_CleanupOnlyAfterExport ==
    [][ExportStep /\ last_export'.outcome # "written" =>
          UNCHANGED <<redis_wal, redis_wal_index>>]_vars

\* The units of work that have started and not completed.
InFlight == {k \in DOMAIN batch : batch[k].st = "await"}

\* C8: in both passes, at most max_concurrent units are in flight.
C8_BoundedConcurrency == Cardinality(InFlight) <= config.max_concurrent

C8_Witness ==
    /\ pc = "fallback"
    /\ Cardinality(InFlight) = 2
    /\ config.max_concurrent = 2

\* The fallback list is about to be computed (process_batch 554).
PrimaryOver == pc = "primary" /\ batch = <<>> /\ next_i > Len(work)

HoldsValidReference(source) ==
    /\ HasLive(source)
    /\ IsValidEnergyReference(results[index_by_source[source]].energy_reference)

\* C9: after the primary pass the sources returned for the fallback are the
\* failed ones and the stored ones without a valid reference, and none of
\* them holds a valid reference.
C9_FallbackEligibility ==
    PrimaryOver =>
        /\ CollectInvalidSources =
               failed_sources \cup
               {results[i].source_file : i \in {j \in DOMAIN results : ~HoldsValidReference(results[j].source_file)}}
        /\ \A source \in CollectInvalidSources : ~HoldsValidReference(source)

\* A step in which a unit of work ends on an exception.
UnitRaises == last_unit'.n = last_unit.n + 1 /\ last_unit'.kind = "raise"

\* C10: a unit that raises is counted as a failure of its source and changes
\* neither the position of the run nor the other units of its window; the
\* passes after the primary one begin only when every document's unit ended.
C10_UnitExceptionContained ==
    /\ [][UnitRaises =>
            /\ pc' = pc
            /\ last_unit'.source \in failed_sources'
            /\ counts'.failed_count + counts'.fallback_failed_count =
                   counts.failed_count + counts.fallback_failed_count + 1
            /\ Len(batch') = Len(batch)
            /\ \A k \in DOMAIN batch :
                  batch'[k] # batch[k] =>
                      /\ batch[k].path.name = last_unit'.source
                      /\ batch[k].st = "await"
            /\ <<work, next_i>>' = <<work, next_i>>]_vars
    /\ [](pc \in {"fallback", "export", "done"} =>
             bars.primary = Len(config.pdf_files))

C10_Witness ==
    /\ pc = "done"
    /\ faults = 0
    /\ failed_sources = {"a.pdf"}
    /\ counts.failed_count = 1
    /\ counts.processed_count = 2
    /\ config.fallback_method = NoMethod

\* A step in which a unit of work ends.
UnitStep == last_unit'.n = last_unit.n + 1

FailureCount(c) == c.failed_count + c.fallback_failed_count

SuccessCount(c) == c.processed_count + c.fallback_processed_count

\* C11: a unit that stores a record adds one to the success counter and
\* nothing to the failed counter; a unit that ends without a record adds one
\* to the failed counter and its source to the failed sources; after the
\* primary pass processed + failed is the number of documents.
C11_CountedOnce ==
    /\ [][UnitStep =>
            IF StoreStep
            THEN /\ SuccessCount(counts') = SuccessCount(counts) + 1
                 /\ FailureCount(counts') = FailureCount(counts)
            ELSE /\ FailureCount(counts') = FailureCount(counts) + 1
                 /\ SuccessCount(counts') = SuccessCount(counts)
                 /\ last_unit'.source \in failed_sources']_vars
    /\ [](PrimaryOver =>
             counts.processed_count + counts.failed_count = Len(config.pdf_files))

\* A unit of work stored its record and no entry reached the WAL: the
\* registration of the segment or the append failed.
UnitStoredWithoutWal == UnitStep /\ StoreStep /\ redis_wal' = redis_wal

\* C12: a unit whose record was stored and whose WAL registration or append
\* failed keeps its record, is counted as processed and is not marked failed.
C12_WalFailureNonFatal ==
    [][UnitStoredWithoutWal =>
          /\ last_unit'.source \in DOMAIN index_by_source'
          /\ SuccessCount(counts') = SuccessCount(counts) + 1
          /\ FailureCount(counts') = FailureCount(counts)
          /\ last_unit'.source \notin failed_sources']_vars

\* C13: a segment that holds an entry is a member of wal:index, and the
\* segment of a run, once named, stays the same until cleanup.
C13_SegmentRegistered ==
    /\ [](\A key \in DOMAIN redis_wal :
             redis_wal[key] # <<>> => key \in redis_wal_index)
    /\ [][wal_key # NoKey /\ wal_key' # NoKey => wal_key' = wal_key]_vars

\* The first replay of the segment has consumed its last entry.
FirstReplayOver == pc = "recover" /\ rec.entries = <<>> /\ ~snapshot.known

\* A step of the recovery loop over one entry.
EntryStep == pc = "recover" /\ rec.entries # <<>> /\ rec'.entries = Tail(rec.entries)

\* The positions of the segment's parseable entries, and for each source the
\* first and the last of them.
ValidAt == {i \in DOMAIN Lrange(ReplaySegment) : Lrange(ReplaySegment)[i].valid}

SourceAt(i) == Lrange(ReplaySegment)[i].data.source_file

FirstValidOf(source) ==
    CHOOSE i \in ValidAt : SourceAt(i) = source /\ \A j \in ValidAt : SourceAt(j) = source => i <= j

LastValidAt == {i \in ValidAt : \A j \in ValidAt : SourceAt(j) = SourceAt(i) => j <= i}

\* C14: a corrupt entry is skipped without touching the store and the loop
\* goes on; a parseable entry is stored; at the end the store holds, in the
\* order the sources first appear, the record of each source's last
\* parseable entry, and as many stores were made as there are such entries.
C14_CorruptEntriesSkipped ==
    /\ [][EntryStep =>
            IF Head(rec.entries).valid
            THEN /\ StoreStep
                 /\ LiveAfter(Head(rec.entries).data.source_file) =
                        JsonLoads(Head(rec.entries).data)
            ELSE /\ UNCHANGED <<storeVars, redisVars, last_store>>
                 /\ rec'.total = rec.total]_vars
    /\ [](FirstReplayOver =>
            /\ {results[i] : i \in DOMAIN results} =
                   {JsonLoads(Lrange(ReplaySegment)[i].data) : i \in LastValidAt}
            /\ Len(results) = Cardinality(LastValidAt)
            /\ \A i, j \in DOMAIN results :
                  i < j => FirstValidOf(results[i].source_file)
                               < FirstValidOf(results[j].source_file)
            /\ rec.total = Cardinality(ValidAt)
            /\ rec.recovered + rec.updated = Cardinality(ValidAt))

C14_Witness ==
    /\ FirstReplayOver
    /\ Len(Lrange(ReplaySegment)) = 3
    /\ Cardinality(Corrupted) = 1
    /\ ~Lrange(ReplaySegment)[2].valid
    /\ Len(results) = 2

\* The documents the primary strategy gives no record for.
PrimaryFailed ==
    {i \in DOMAIN config.pdf_files :
        Only(config.pdf_files[i], config.method).kind # "record"}

\* One uninterrupted run with a fallback, in which the primary strategy fails
\* on F, gives a valid reference for every other document, and the fallback
\* strategy gives a record for every document of F.
C15_Case ==
    /\ pc = "done" /\ run_no = 1 /\ crashes = 0 /\ faults = 0
    /\ Deterministic
    /\ config.fallback_method # NoMethod
    /\ \A i \in DOMAIN config.pdf_files :
          IF i \in PrimaryFailed
          THEN Only(config.pdf_files[i], config.fallback_method).kind = "record"
          ELSE IsValidEnergyReference(Only(config.pdf_files[i], config.method).ref)

\* C15: then the store holds one record per document, the fallback-processed
\* count is |F|, the fallback-failed count is 0 and the primary processed
\* count is the number of the other documents.
C15_FallbackRepairsFailures ==
    C15_Case =>
        /\ Len(results) = Len(config.pdf_files)
        /\ {results[i].source_file : i \in DOMAIN results} =
               {config.pdf_files[i].name : i \in DOMAIN config.pdf_files}
        /\ counts.fallback_processed_count = Cardinality(PrimaryFailed)
        /\ counts.fallback_failed_count = 0
        /\ counts.processed_count = Len(config.pdf_files) - Cardinality(PrimaryFailed)

-----------------------------------------------------------------------------
(* Properties of references and identifiers.                                *)

Letters == LowerLetters \cup UpperLetters

\* Validity as the specification words it: after trimming, 14 digits, or 8
\* alphanumeric characters of which at least one is a letter.
ValidAsSpecified(reference) ==
    LET ref == Strip(reference)
    IN  \/ Len(ref) = 14 /\ \A i \in DOMAIN ref : ref[i] \in Digits
        \/ /\ Len(ref) = 8
           /\ \A i \in DOMAIN ref : ref[i] \in Digits \cup Letters
           /\ \E i \in DOMAIN ref : ref[i] \in Letters

\* C16: the reference of a stored record is treated as valid exactly when it
\* is, after trimming, 14 digits or 8 alphanumerics with at least one letter.
C16_ValidIffShape ==
    \A i \in DOMAIN results :
        /\ IsValidEnergyReference(results[i].energy_reference)
               = ValidAsSpecified(results[i].energy_reference)
        /\ (NormalizeRef(results[i].energy_reference) \in processed_references)
               = ValidAsSpecified(results[i].energy_reference)

\* The identifier as the specification derives it for a record that carries
\* a source: the valid reference if there is one, else the source.
IdentifierAsSpecified(record) ==
    IF ValidAsSpecified(record.energy_reference)
    THEN <<"ref", NormalizeRef(record.energy_reference)>>
    ELSE <<"src", record.source_file>>

\* C17: the identifier under which a record was stored is the one the
\* priority order gives, and deriving it again gives the same identifier.
C17_IdentifierPriority ==
    last_store.n > 0 /\ HasLive(last_store.source) =>
        LET record == results[index_by_source[last_store.source]]
        IN  /\ last_store.record_identifier = IdentifierAsSpecified(record)
            /\ BuildRecordIdentifier(record) = last_store.record_identifier

-----------------------------------------------------------------------------
(* Properties of the end of the run.                                        *)

\* C18: the handler of an exception that escaped the orchestration leaves
\* only by an export attempt, made once no incremental export is pending,
\* and then re-raises, whether or not that attempt itself failed.
C18_ExportBeforeReraise ==
    /\ [][pc = "fatal" /\ pc' # "fatal" =>
            /\ ExportStep
            /\ last_export'.kind = "fatal"
            /\ excel_executor.queue = 0
            /\ pc' = "raised"]_vars
    /\ [](pc = "raised" => last_export.kind = "fatal")

C18_Witness ==
    /\ pc = "raised"
    /\ last_export.kind = "fatal"
    /\ last_export.outcome = "raised"
    /\ results # <<>>

\* The run returned or raised.
RunEnded == pc \in {"done", "raised"}

\* C19: a run that ended has attempted an export and has logged the summary
\* of counts.
C19_ExportAndSummary ==
    RunEnded => last_export.n > 0 /\ last_export.summary

\* C20: when the ordering index was read and the payload of an identifier
\* could not be, the export works on the in-memory records.
C20_PartialFailureUsesMemory ==
    [][ExportStep /\ last_export'.partial => last_export'.fetched = results]_vars

\* C21: an export whose write of the workbook fails leaves the run on its
\* normal course: process_batch neither enters its error handler nor raises.
C21_WriteFailureNeverAborts ==
    [][ExportStep /\ last_export'.outcome = "raised" =>
          pc' \notin {"fatal", "raised"}]_vars

-----------------------------------------------------------------------------
(* Properties of the exports.                                               *)

\* C22: at most one incremental export is being written at any time, and a
\* blocking export (the final one, or the one of the error handler) runs
\* only when no incremental export is queued or being written.
C22_OneWriterAtATime ==
    /\ [](excel_executor.running <= 1)
    /\ [][ExportStep /\ last_export'.kind # "incremental" =>
            excel_executor.running = 0 /\ excel_executor.queue = 0]_vars

C22_Witness ==
    /\ pc = "done"
    /\ last_export.kind = "final"
    /\ last_export.n = 3
    /\ excel_executor.submitted = 2

\* The primary pass is between two windows, or over.
BetweenWindows ==
    \/ pc = "primary" /\ batch = <<>>
    \/ pc \in {"export", "done"}

\* C23: whenever the primary pass is between two windows or over, one
\* incremental export has been scheduled for every multiple of 20 that the
\* count of successful units has reached or passed.
C23_ExportEveryPeriod ==
    BetweenWindows =>
        excel_executor.submitted = counts.processed_count \div ExcelEvery

-----------------------------------------------------------------------------
(* Properties of the windows and of the units of work.                      *)

\* The units of the pass in progress that have ended (each updates the
\* progress bar of its pass when it ends).
EndedInPass == IF IsFallback THEN bars.fallback ELSE bars.primary

\* A step that starts a window.
WindowStarts == next_i' > next_i

\* C24: in both passes, when a window starts, every unit of the windows
\* before it has ended.
C24_WindowBarrier ==
    [][WindowStarts => batch = <<>> /\ EndedInPass = next_i - 1]_vars

C24_Witness ==
    /\ pc = "fallback"
    /\ config.max_concurrent = 2
    /\ next_i = 5
    /\ Cardinality(InFlight) = 1
    /\ bars.fallback = 2

\* The WAL segment of the run in progress.
RunSegment == IF wal_key = NoKey THEN <<>> ELSE Lrange(wal_key)

\* A unit of work ends having stored a record.
UnitStored == UnitStep /\ last_unit'.kind = "stored"

\* C25: while no external operation has failed, a unit that ends having
\* stored a record adds that record, serialised, as the last entry of the
\* run's segment, no other step of the run adds or moves an entry, and the
\* segment has as many entries as units have succeeded.
C25_WalInCompletionOrder ==
    /\ [][UnitStored /\ faults' = 0 =>
            /\ wal_key' # NoKey
            /\ RunSegment' =
                   Append(RunSegment, WalEntry(LiveAfter(last_unit'.source)))]_vars
    /\ [][~UnitStored /\ wal_key' = wal_key => RunSegment' = RunSegment]_vars
    /\ [](faults = 0 /\ wal_key # NoKey =>
            Len(RunSegment) = SuccessCount(counts))

C25_Witness ==
    /\ faults = 0
    /\ wal_key # NoKey
    /\ config.pdf_files[1].name = "a.pdf"
    /\ Len(RunSegment) = 2
    /\ RunSegment[1].data.source_file = "b.pdf"
    /\ RunSegment[2].data.source_file = "a.pdf"
    /\ results[1].source_file = "b.pdf"

\* C26: a step that commits a record to the external store, and a step that
\* appends to the WAL, are taken while results_lock is not held.
C26_LockOnlyForMemory ==
    [][StoreStep \/ RunSegment' # RunSegment => ~LockHeld]_vars

-----------------------------------------------------------------------------
(* Properties of the commit to the external store.                          *)

\* The store of this step removed the payload of the record it replaced.
DeletedPrevious ==
    /\ last_store'.previous_identifier \in DOMAIN redis_record
    /\ last_store'.previous_identifier \notin DOMAIN redis_record'

\* C27: the ordering index and the payloads always hold the same
\* identifiers; a store whose commit fails leaves the external store as it
\* was; and a store that deletes the record it replaces leaves that
\* record's reference out of processed_refs.
C27_CommitAllOrNothing ==
    /\ [](DOMAIN redis_order = DOMAIN redis_record)
    /\ [][StoreStep /\ ~last_store'.ok => UNCHANGED redisVars]_vars
    /\ [][StoreStep /\ last_store'.ok =>
            /\ last_store'.record_identifier \in DOMAIN redis_record'
            /\ DeletedPrevious =>
                  \/ ~IsValidEnergyReference(last_store'.previous_reference)
                  \/ NormalizeRef(last_store'.previous_reference) \notin redis_refs']_vars

C27_Witness ==
    /\ last_store.n = 3
    /\ ~last_store.ok
    /\ last_store.replaced
    /\ last_store.previous_identifier # last_store.record_identifier
    /\ last_store.previous_identifier \in DOMAIN redis_record
    /\ IsValidEnergyReference(last_store.previous_reference)
    /\ Cardinality(DOMAIN redis_record) = 2

\* The identifiers, other than id, keep their payload and their score.
OthersKept(id) ==
    /\ \A x \in DOMAIN redis_record \ {id} :
          x \in DOMAIN redis_record' /\ redis_record'[x] = redis_record[x]
    /\ \A x \in DOMAIN redis_order \ {id} :
          x \in DOMAIN redis_order' /\ redis_order'[x] = redis_order[x]

\* C28: a store returns true exactly when the source index held a record
\* for the record's source; when it held none, the external store loses no
\* payload, no ordering entry and no reference, and a commit that succeeds
\* writes the payload and the ordering entry of the new record and adds its
\* reference if valid.
C28_ReturnsReplaced ==
    [][StoreStep =>
          LET source == last_store'.source
              id == last_store'.record_identifier
              record == LiveAfter(source)
          IN  /\ last_store'.replaced = (source \in DOMAIN index_by_source)
              /\ ~last_store'.replaced =>
                    /\ OthersKept(id)
                    /\ redis_refs \subseteq redis_refs'
                    /\ last_store'.ok =>
                          /\ id \in DOMAIN redis_record'
                          /\ redis_record'[id] = JsonDumps(record)
                          /\ id \in DOMAIN redis_order'
                          /\ redis_order'[id] = record.processed_at
                          /\ redis_refs' \ redis_refs \subseteq
                                {NormalizeRef(record.energy_reference)}
                          /\ IsValidEnergyReference(record.energy_reference) =>
                                NormalizeRef(record.energy_reference) \in redis_refs']_vars

C28_Witness ==
    /\ ~last_store.replaced
    /\ last_store.ok
    /\ Len(results) = 2
    /\ Cardinality(DOMAIN redis_record) = 2
    /\ IsValidEnergyReference(results[2].energy_reference)

-----------------------------------------------------------------------------
(* Properties of the course of a run.                                       *)

\* The order of the phases of process_batch: from one phase to the next.
PhaseEdges ==
    {<<"idle", "recover">>, <<"idle", "primary">>, <<"recover", "primary">>,
     <<"primary", "fallback">>, <<"primary", "export">>,
     <<"fallback", "export">>, <<"export", "done">>, <<"export", "fatal">>,
     <<"fatal", "raised">>}

\* The process was killed, or started again after the run returned or raised.
ProcessEnds == pc' = "idle"

RunInProgress == pc \in {"recover", "primary", "fallback", "export", "fatal"}

\* C29: a run moves from phase to phase in the order Reset, Recover, primary
\* pass, fallback pass, final export with its WAL cleanup; it leaves recovery
\* only when every segment has been replayed, a pass only when every unit of
\* it has ended, and the export with the WAL keys forgotten; and a run that
\* is not killed reaches its end.
C29_PhasesInOrderAndTermination ==
    /\ [][pc' # pc /\ ~ProcessEnds => <<pc, pc'>> \in PhaseEdges]_vars
    /\ [][pc = "idle" /\ pc' # pc =>
            results' = <<>> /\ counts' = ZeroCounts /\ failed_sources' = {}]_vars
    /\ [][pc = "recover" /\ pc' = "primary" =>
            rec.keys = <<>> /\ rec.cur = NoKey]_vars
    /\ [][pc = "primary" /\ pc' \in {"fallback", "export"} =>
            batch = <<>> /\ bars.primary = Len(config.pdf_files)]_vars
    /\ [][pc = "fallback" /\ pc' = "export" =>
            batch = <<>> /\ bars.fallback = Len(work)]_vars
    /\ [][pc = "export" /\ pc' # pc /\ ~ProcessEnds =>
            ExportStep /\ wal_key' = NoKey /\ recovered_wal_keys' = {}]_vars
    /\ (RunInProgress /\ crashes = config.max_crashes ~> pc \in {"done", "raised"})

C29_Witness ==
    /\ pc = "done"
    /\ run_no = 2
    /\ rec.total > 0
    /\ bars.fallback > 0
    /\ last_export.outcome = "written"

-----------------------------------------------------------------------------
(* Properties of the record schema.                                         *)

\* C30: constructing an EnergyInvoiceRecord from supplier, energy_reference
\* and an accepted energy_reference_type alone succeeds, and the object's
\* energy_reference is the value given.
C30_ConstructFromThreeFields ==
    /\ pc = "done"
    /\ DOMAIN config.kwargs = SmokeFields
    /\ config.kwargs.energy_reference_type \in EnergyReferenceType
    => /\ rec.ok
       /\ rec.value.energy_reference = config.kwargs.energy_reference

-----------------------------------------------------------------------------
(* Properties of recovery and of the WAL segments.                          *)

\* The entries of a segment that json.loads accepts.
ParseableEntries(key) ==
    {i \in DOMAIN Lrange(key) : Parseable(Lrange(key)[i])}

\* A step of recovery that marks the segment it has replayed.
SegmentMarked ==
    /\ pc = "recover"
    /\ recovered_wal_keys' # recovered_wal_keys
    /\ recovered_wal_keys \subseteq recovered_wal_keys'

\* The segments the cleanup of this run must leave alone.
NotOfThisRun ==
    redis_wal_index \ (recovered_wal_keys \cup {wal_key})

\* C31: recovery marks a segment once it has put every parseable entry of it
\* through the store, counting each as new or updated; when no read has
\* failed it has marked every registered segment by the time the primary
\* pass starts; and a segment that was not marked is still registered, with
\* its entries, after the export's cleanup.
C31_RecoverMarksWhatItRead ==
    /\ [][SegmentMarked =>
            /\ recovered_wal_keys' = recovered_wal_keys \cup {rec.cur}
            /\ rec.cur \in redis_wal_index
            /\ rec.recovered + rec.updated = Cardinality(ParseableEntries(rec.cur))
            /\ \A i \in ParseableEntries(rec.cur) :
                  Lrange(rec.cur)[i].data.source_file \in DOMAIN index_by_source]_vars
    /\ [][pc = "recover" /\ pc' = "primary" =>
            /\ recovered_wal_keys \subseteq redis_wal_index
            /\ faults = 0 => recovered_wal_keys = redis_wal_index]_vars
    /\ [][ExportStep =>
            \A key \in NotOfThisRun :
                /\ key \in redis_wal_index'
                /\ key \in DOMAIN redis_wal => /\ key \in DOMAIN redis_wal'
                                               /\ redis_wal'[key] = redis_wal[key]]_vars

C31_Witness ==
    /\ pc = "done"
    /\ run_no = 2
    /\ last_export.outcome = "written"
    /\ redis_wal_index = {<<"wal", 1>>}
    /\ Lrange(<<"wal", 1>>) # <<>>
    /\ rec.keys = <<>>
    /\ rec.total = 0

-----------------------------------------------------------------------------
(* Properties of concurrent units of work on one source.                    *)

\* The records of the Record Store and its source index agree, one record
\* per source.
OneRecordPerSource ==
    /\ DOMAIN index_by_source = {results[i].source_file : i \in DOMAIN results}
    /\ \A s \in DOMAIN index_by_source :
          /\ index_by_source[s] \in DOMAIN results
          /\ results[index_by_source[s]].source_file = s
    /\ \A i, j \in DOMAIN results :
          results[i].source_file = results[j].source_file => i = j

\* Unit k stores its record in this step and no other unit moves.
StoresAlone(k) ==
    /\ batch[k].st = "locked"
    /\ DOMAIN batch' = DOMAIN batch
    /\ batch'[k].st = "stored"
    /\ \A j \in DOMAIN batch \ {k} : batch'[j] = batch[j]
    /\ LET record == batch[k].record
           source == record.source_file
       IN  /\ IF source \in DOMAIN index_by_source
              THEN /\ Len(results') = Len(results)
                   /\ index_by_source' = index_by_source
                   /\ \A i \in DOMAIN results :
                         results'[i] = IF i = index_by_source[source]
                                       THEN record ELSE results[i]
              ELSE /\ results' = Append(results, record)
                   /\ index_by_source' = Put(index_by_source, source, Len(results) + 1)

\* C32: the in-memory store changes only in a step of one unit that looks
\* the source up, replaces or appends and updates the index at once, while
\* no other unit is between building its record and returning; two units
\* completing for the same source leave one record.
C32_StoreMutationAtomic ==
    /\ [](OneRecordPerSource /\ Cardinality({k \in DOMAIN batch : InSection(k)}) <= 1)
    /\ [][pc = "primary" /\ <<results, index_by_source>>' # <<results, index_by_source>>
            => \E k \in DOMAIN batch : StoresAlone(k)]_vars

C32_Witness ==
    /\ Len(batch) = 2
    /\ \A k \in DOMAIN batch : batch[k].st = "done" /\ batch[k].path.name = "a.pdf"
    /\ batch[1].path # batch[2].path
    /\ counts.processed_count = 2
    /\ Len(results) = 1

-----------------------------------------------------------------------------
(* Properties of the fallback pass.                                         *)

\* The names of the documents of the run.
DocumentNames == {config.pdf_files[i].name : i \in DOMAIN config.pdf_files}

\* The sources that failed or whose live record has no valid reference, read
\* from the Record Store as it is now.
NeedsFallbackNow ==
    {s \in failed_sources \cup DOMAIN index_by_source :
        \/ s \in failed_sources
        \/ \E i \in DOMAIN results :
              /\ results[i].source_file = s
              /\ ~IsValidEnergyReference(results[i].energy_reference)}

FallbackStarts == pc # "fallback" /\ pc' = "fallback"

\* C33: the fallback pass starts only with a fallback configured, from the
\* primary pass once each of its units has ended, over exactly the documents
\* of the run whose source needs a fallback at that moment; every fallback
\* unit is one of them, and a source known only from recovery never is.
C33_FallbackOnlyForCurrentInvalid ==
    /\ [][FallbackStarts =>
            /\ pc = "primary"
            /\ config.fallback_method # NoMethod
            /\ batch = <<>>
            /\ bars.primary = Len(config.pdf_files)
            /\ {work'[i].name : i \in DOMAIN work'} = NeedsFallbackNow \cap DocumentNames
            /\ \A i \in DOMAIN work' : work'[i] = source_to_path[work'[i].name]
            /\ \A i, j \in DOMAIN work' : work'[i] = work'[j] => i = j]_vars
    /\ [](pc = "fallback" =>
            /\ config.fallback_method # NoMethod
            /\ \A k \in DOMAIN batch :
                  \E i \in DOMAIN work : work[i] = batch[k].path)
    /\ [][last_unit'.n # last_unit.n /\ last_unit'.is_fallback =>
            /\ pc = "fallback"
            /\ last_unit'.source \in DocumentNames
            /\ \E i \in DOMAIN work : work[i].name = last_unit'.source]_vars

C33_Witness ==
    /\ pc = "done"
    /\ bars.fallback = 1
    /\ last_unit.is_fallback
    /\ last_unit.source = "a.pdf"
    /\ StraySource \in NeedsFallbackNow

-----------------------------------------------------------------------------
(* Properties of the in-memory reference set.                               *)

\* C34: the in-memory set of processed references is the set of normalized
\* valid references of the live records, so a reference that a replace took
\* away from its last carrier is no longer in the set.
C34_MemoryReferencesMatchLive == processed_references = LiveRefs

-----------------------------------------------------------------------------
(* Properties of documents that share a file name.                          *)

\* The documents of the run called name.
Named(name) ==
    {i \in DOMAIN config.pdf_files : config.pdf_files[i].name = name}

\* The records of the Record Store for the source name.
RecordsOf(name) == {i \in DOMAIN results : results[i].source_file = name}

\* C35: each document of the set, also one that shares its name with
\* another, is processed once in the primary pass; the store never holds
\* two records for one name; and a unit that stores a record leaves, for its
\* name, that record alone and whole, whatever the other document left.
C35_SharedNameLastWins ==
    /\ [](Cardinality(RecordsOf("a.pdf")) <= 1)
    /\ [][pc = "primary" /\ pc' # "primary" =>
            /\ Cardinality(Named("a.pdf")) = 2
            /\ bars.primary = Len(config.pdf_files)
            /\ "a.pdf" \notin failed_sources => Cardinality(RecordsOf("a.pdf")) = 1]_vars
    /\ [][pc = "primary" /\ UnitStored =>
            \E k \in DOMAIN batch : \E o \in Allowed(batch[k].path, PassMethod) :
                /\ batch[k].st = "await"
                /\ batch'[k].st = "done"
                /\ o.kind = "record"
                /\ RecordsOf(batch[k].path.name)' = {index_by_source'[batch[k].path.name]}
                /\ LiveAfter(batch[k].path.name)
                     = NewRecord(batch[k].path.name, o.ref, now, PassMethod)]_vars

C35_Witness ==
    /\ pc = "export"
    /\ config.fallback_method = NoMethod
    /\ counts.processed_count = 3
    /\ Cardinality(RecordsOf("a.pdf")) = 1
    /\ results[index_by_source["a.pdf"]].energy_reference = R8
    /\ \E i \in DOMAIN Lrange(<<"wal", 1>>) :
          /\ Lrange(<<"wal", 1>>)[i].data.source_file = "a.pdf"
          /\ Lrange(<<"wal", 1>>)[i].data.energy_reference = R14

-----------------------------------------------------------------------------
(* Properties of the external store seen through the export's read.         *)

\* What _fetch_all_records returns when every read goes through.
Fetched == FetchAllRecords(TRUE, {})

\* The payload of the live record of a source, as the external store keeps it.
LivePayload(source) == JsonLoads(JsonDumps(results[index_by_source[source]]))

\* C36: when no external operation has failed on a store that was empty at
\* the start, the current payload of every source with a live record is
\* among the records the ordering index leads to, also when two sources
\* carry the same valid reference.
C36_LiveReachable ==
    ext_clean =>
        \A source \in DOMAIN index_by_source :
            \E i \in DOMAIN Fetched : Fetched[i] = LivePayload(source)

\* The identifiers of the ordering index whose payload belongs to source.
ExternalOf(source) ==
    {id \in DOMAIN redis_order \cap DOMAIN redis_record :
        redis_record[id].source_file = source}

\* C37: whatever commits failed before, a store whose commit succeeds leaves
\* at most one identifier of the ordering index with a payload of its source.
C37_OneExternalPerSource ==
    [][StoreStep /\ last_store'.ok =>
          \A source \in Sources :
              last_store'.source = source => Cardinality(ExternalOf(source)') <= 1]_vars

\* C38: a final export that writes the workbook writes only rows of sources
\* that have a record stored during the run, by recovery or by a pass.
C38_ExportOnlyThisRun ==
    [][ExportStep /\ last_export'.kind = "final" /\ last_export'.outcome = "written" =>
          \A i \in DOMAIN excel' : excel'[i].source_file \in DOMAIN index_by_source]_vars

-----------------------------------------------------------------------------
(* Properties of runs that share the external store.                        *)

\* The entries of the other run's segment.
OtherEntries == Lrange(OtherSegment)

\* C39: the segment of the other run, which is still active, stays
\* registered in wal:index with every entry that run has appended, whatever
\* this run recovers and cleans up.
C39_OtherSegmentKept ==
    [][(OtherSegment \in redis_wal_index) =>
          /\ OtherSegment \in redis_wal_index'
          /\ Len(OtherEntries) <= Len(OtherEntries')
          /\ SubSeq(OtherEntries', 1, Len(OtherEntries)) = OtherEntries]_vars

-----------------------------------------------------------------------------
(* Properties of a second call of process_batch on one instance.            *)

\* A window of the primary pass ends with a success count that calls for an
\* incremental export.
ExportDue ==
    /\ pc = "primary"
    /\ batch # <<>>
    /\ batch' = <<>>
    /\ counts.processed_count > 0
    /\ counts.processed_count % ExcelEvery = 0

\* C40: in a call of process_batch after the first, a window that calls for
\* an incremental export gets one submitted and the call goes on in the
\* primary pass instead of taking the fatal-error path.
C40_SecondRunSchedules ==
    [][run_no > 1 /\ ExportDue =>
          /\ excel_executor'.submitted = excel_executor.submitted + 1
          /\ pc' = "primary"]_vars

====
